---- MODULE Spec2Model ----
(***************************************************************************)
(* Model of the two-stage filter of dump.py, in its two revisions:         *)
(*   src/dump.py          (rev = "dump")                                   *)
(*   src/CodeDump/dump.py (rev = "CodeDump")                               *)
(* Rule lines, patterns and paths are strings; the gitignore dialect is    *)
(* modelled by the regular expression the matcher builds from a pattern    *)
(* and by a matcher for that expression.                                   *)
(***************************************************************************)
EXTENDS Integers, Sequences, FiniteSets, TLC

(***************************************************************************)
(* Strings                                                                 *)
(***************************************************************************)

\* s[i] as a one-character string
Ch(s, i) == SubSeq(s, i, i)

\* str.startswith(c)
startswith(s, c) == Len(s) >= Len(c) /\ SubSeq(s, 1, Len(c)) = c

\* str.endswith(c) for a one-character suffix
endswith(s, c) == Len(s) >= 1 /\ Ch(s, Len(s)) = c

RECURSIVE lstrip(_)
lstrip(s) == IF startswith(s, " ") THEN lstrip(SubSeq(s, 2, Len(s))) ELSE s

RECURSIVE rstrip(_)
rstrip(s) == IF endswith(s, " ") THEN rstrip(SubSeq(s, 1, Len(s) - 1)) ELSE s

\* str.strip()
strip(s) == rstrip(lstrip(s))

\* index of the first occurrence of c in s at or after i, 0 when there is none
RECURSIVE find(_, _, _)
find(s, c, i) ==
    IF i > Len(s) THEN 0
    ELSE IF Ch(s, i) = c THEN i
    ELSE find(s, c, i + 1)

\* str.split(c): the sequence of the pieces of s between occurrences of c
RECURSIVE split(_, _)
split(s, c) ==
    LET k == find(s, c, 1)
    IN  IF k = 0 THEN <<s>>
        ELSE <<SubSeq(s, 1, k - 1)>> \o split(SubSeq(s, k + 1, Len(s)), c)

\* index of the last occurrence of c in s, 0 when there is none
RECURSIVE rfind(_, _, _)
rfind(s, c, i) ==
    IF i < 1 THEN 0
    ELSE IF Ch(s, i) = c THEN i
    ELSE rfind(s, c, i - 1)

\* number of leading dots of s
RECURSIVE leading_dots(_)
leading_dots(s) ==
    IF startswith(s, ".") THEN 1 + leading_dots(SubSeq(s, 2, Len(s))) ELSE 0

\* os.path.splitext(name)[1] for a name without a separator: the suffix from
\* the last dot on, unless that dot is one of the leading dots of the name
splitext_ext(name) ==
    LET k == rfind(name, ".", Len(name))
    IN  IF k > leading_dots(name) THEN SubSeq(name, k, Len(name)) ELSE ""

\* str.lower() on the letters the model's names use
LowerOf(c) ==
    CASE c = "M" -> "m"
      [] c = "D" -> "d"
      [] OTHER   -> c

RECURSIVE lower(_)
lower(s) == IF s = "" THEN "" ELSE LowerOf(Ch(s, 1)) \o lower(SubSeq(s, 2, Len(s)))

\* The gitwildmatch dialect: GitWildMatchPattern(pattern_str) builds a regular
\* expression and pattern.match_file(path) matches it on the whole path.  A
\* regular expression is a sequence of tokens:
\*   lit c     the character c
\*   any1      one character other than a slash
\*   star      any run of characters other than a slash
\*   plus      a non-empty run of characters other than a slash
\*   dotstar   any run of characters
\*   dotplus   a non-empty run of characters
\*   optpre    optionally: dotplus then a slash  (a prefix of directories)
\*   opttail   optionally: a slash then dotstar  (everything beneath)
\*   optmid    optionally: a slash then dotplus  (directories in between)

Tok(k, c) == [k |-> k, c |-> c]

\* one path segment of a pattern: * is [^/]*, ? is [^/], the rest literal
RECURSIVE translate_segment_glob(_)
translate_segment_glob(seg) ==
    IF seg = "" THEN <<>>
    ELSE LET c    == Ch(seg, 1)
             rest == translate_segment_glob(SubSeq(seg, 2, Len(seg)))
         IN  CASE c = "*" -> <<Tok("star", "")>> \o rest
               [] c = "?" -> <<Tok("any1", "")>> \o rest
               [] OTHER   -> <<Tok("lit", c)>> \o rest

\* collapse adjacent "**" segments into one
RECURSIVE collapse_stars(_)
collapse_stars(segs) ==
    IF Len(segs) < 2 THEN segs
    ELSE IF segs[1] = "**" /\ segs[2] = "**" THEN collapse_stars(Tail(segs))
    ELSE <<segs[1]>> \o collapse_stars(Tail(segs))

\* the segments after anchoring: a leading empty segment (leading slash) is
\* dropped, a single segment (with or without a trailing slash) matches at
\* any level, a pattern with an inner slash is relative to the root
anchor_segs(segs) ==
    IF segs[1] = "" THEN Tail(segs)
    ELSE IF Len(segs) = 1 \/ (Len(segs) = 2 /\ segs[2] = "")
         THEN (IF segs[1] # "**" THEN <<"**">> \o segs ELSE segs)
    ELSE segs

\* a trailing empty segment (trailing slash) matches everything beneath
trailing_segs(segs) ==
    IF Len(segs) > 1 /\ segs[Len(segs)] = ""
    THEN [segs EXCEPT ![Len(segs)] = "**"]
    ELSE segs

\* the regular expression of segments i..end; need_slash as in the library
RECURSIVE segs_to_regex(_, _, _, _)
segs_to_regex(segs, i, need_slash, is_dir_pattern) ==
    IF i > Len(segs) THEN <<>>
    ELSE
      LET seg  == segs[i]
          end  == Len(segs)
          sl   == IF need_slash THEN <<Tok("lit", "/")>> ELSE <<>>
          tail == IF i = end THEN <<Tok("opttail", "")>> ELSE <<>>
      IN  IF seg = "**" THEN
            IF i = 1 /\ i = end THEN <<Tok("plus", ""), Tok("opttail", "")>>
            ELSE IF i = 1 THEN
              <<Tok("optpre", "")>> \o segs_to_regex(segs, i + 1, FALSE, is_dir_pattern)
            ELSE IF i = end THEN
              (IF is_dir_pattern THEN <<Tok("lit", "/"), Tok("dotstar", "")>>
                                 ELSE <<Tok("lit", "/"), Tok("dotplus", "")>>)
            ELSE
              <<Tok("optmid", "")>> \o segs_to_regex(segs, i + 1, TRUE, is_dir_pattern)
          ELSE IF seg = "*" THEN
            sl \o <<Tok("plus", "")>> \o tail
               \o segs_to_regex(segs, i + 1, TRUE, is_dir_pattern)
          ELSE
            sl \o translate_segment_glob(seg) \o tail
               \o segs_to_regex(segs, i + 1, TRUE, is_dir_pattern)

\* GitWildMatchPattern(pattern_str): [valid, include, regex].  valid = FALSE
\* is the constructor raising; include = "none" is a pattern that matches
\* nothing (empty, a comment, a lone slash); a leading ! is the dialect's own
\* negation and clears include.
GitWildMatchPattern(pattern_str) ==
    LET p0 == strip(pattern_str)
    IN  IF p0 = "" \/ startswith(p0, "#") \/ p0 = "/"
        THEN [valid |-> TRUE, include |-> "none", regex |-> <<>>]
        ELSE
          LET neg   == startswith(p0, "!")
              p     == IF neg THEN SubSeq(p0, 2, Len(p0)) ELSE p0
              segs0 == collapse_stars(split(p, "/"))
              isdir == segs0[Len(segs0)] = ""
              segs1 == anchor_segs(segs0)
          IN  IF segs1 = <<>>
              THEN [valid |-> FALSE, include |-> "none", regex |-> <<>>]
              ELSE IF Len(segs0) = 2 /\ segs0[1] = "**" /\ segs0[2] = ""
              THEN [valid |-> TRUE, include |-> IF neg THEN "no" ELSE "yes",
                    regex |-> <<Tok("dotplus", ""), Tok("lit", "/"), Tok("dotstar", "")>>]
              ELSE [valid |-> TRUE, include |-> IF neg THEN "no" ELSE "yes",
                    regex |-> segs_to_regex(trailing_segs(segs1), 1, FALSE, isdir)]

\* TRUE iff the first k characters of s hold no slash
RECURSIVE no_slash(_, _)
no_slash(s, k) == k = 0 \/ (Ch(s, k) # "/" /\ no_slash(s, k - 1))

\* re.match of the anchored expression re on the whole of s
RECURSIVE regex_match(_, _)
regex_match(re, s) ==
    IF re = <<>> THEN s = ""
    ELSE
      LET t       == re[1]
          rest    == Tail(re)
          drop(k) == SubSeq(s, k + 1, Len(s))
      IN  CASE t.k = "lit"     -> startswith(s, t.c) /\ regex_match(rest, drop(1))
            [] t.k = "any1"    -> Len(s) >= 1 /\ Ch(s, 1) # "/" /\ regex_match(rest, drop(1))
            [] t.k = "star"    -> \E k \in 0..Len(s) : no_slash(s, k) /\ regex_match(rest, drop(k))
            [] t.k = "plus"    -> \E k \in 1..Len(s) : no_slash(s, k) /\ regex_match(rest, drop(k))
            [] t.k = "dotstar" -> \E k \in 0..Len(s) : regex_match(rest, drop(k))
            [] t.k = "dotplus" -> \E k \in 1..Len(s) : regex_match(rest, drop(k))
            [] t.k = "optpre"  -> \/ regex_match(rest, s)
                                  \/ regex_match(<<Tok("dotplus", ""), Tok("lit", "/")>> \o rest, s)
            [] t.k = "opttail" -> \/ regex_match(rest, s)
                                  \/ regex_match(<<Tok("lit", "/"), Tok("dotstar", "")>> \o rest, s)
            [] t.k = "optmid"  -> \/ regex_match(rest, s)
                                  \/ regex_match(<<Tok("lit", "/"), Tok("dotplus", "")>> \o rest, s)

\* pattern.match_file(path): truthy iff the pattern has an expression and it
\* matches (whatever the pattern's own include flag says)
match_file(pattern, path) ==
    pattern.include # "none" /\ regex_match(pattern.regex, path)

(***************************************************************************)
(* Stage 1: user rules                                                     *)
(***************************************************************************)

\* class FilterOutcome
FORCE_INCLUDE    == "FORCE_INCLUDE"
ADDITIVE_INCLUDE == "ADDITIVE_INCLUDE"
EXPLICIT_EXCLUDE == "EXPLICIT_EXCLUDE"
DEFAULT_INCLUDE  == "DEFAULT_INCLUDE"

FilterOutcome == {FORCE_INCLUDE, ADDITIVE_INCLUDE, EXPLICIT_EXCLUDE, DEFAULT_INCLUDE}

\* one compiled rule: the tuple (pattern, outcome, rule_line); pattern_str is
\* the string the pattern object was built from
CompiledRule(pattern_str, outcome, rule_line) ==
    [pattern     |-> GitWildMatchPattern(pattern_str),
     pattern_str |-> pattern_str,
     outcome     |-> outcome,
     rule_line   |-> rule_line]

\* the - prefix forgotten: such a line is taken as a bare pattern
classify_rule_line_no_minus(rule_line) ==
    IF startswith(rule_line, "!")
    THEN CompiledRule(strip(SubSeq(rule_line, 2, Len(rule_line))), FORCE_INCLUDE, rule_line)
    ELSE IF startswith(rule_line, "+")
    THEN CompiledRule(strip(SubSeq(rule_line, 2, Len(rule_line))), ADDITIVE_INCLUDE, rule_line)
    ELSE CompiledRule(rule_line, EXPLICIT_EXCLUDE, rule_line)

\* the body of the loop of compile_stage_1_rules for one rule line (src/dump.py)
classify_rule_line(rule_line) ==
    IF startswith(rule_line, "!")
    THEN CompiledRule(strip(SubSeq(rule_line, 2, Len(rule_line))), FORCE_INCLUDE, rule_line)
    ELSE IF startswith(rule_line, "+")
    THEN CompiledRule(strip(SubSeq(rule_line, 2, Len(rule_line))), ADDITIVE_INCLUDE, rule_line)
    ELSE IF startswith(rule_line, "-")
    THEN CompiledRule(strip(SubSeq(rule_line, 2, Len(rule_line))), EXPLICIT_EXCLUDE, rule_line)
    ELSE CompiledRule(rule_line, EXPLICIT_EXCLUDE, rule_line)

\* compile_stage_1_rules of src/dump.py: a rule whose pattern the matcher
\* rejects is dropped, the others keep their order
RECURSIVE compile_stage_1_rules(_)
compile_stage_1_rules(rules_list) ==
    IF rules_list = <<>> THEN <<>>
    ELSE LET r == classify_rule_line(Head(rules_list))
         IN  (IF r.pattern.valid THEN <<r>> ELSE <<>>)
                \o compile_stage_1_rules(Tail(rules_list))

\* the body of the loop of compile_stage_1_rules for one rule line
\* (src/CodeDump/dump.py): a bare pattern is additive
classify_rule_line_CodeDump(rule_line) ==
    IF startswith(rule_line, "!")
    THEN CompiledRule(strip(SubSeq(rule_line, 2, Len(rule_line))), FORCE_INCLUDE, rule_line)
    ELSE IF startswith(rule_line, "+")
    THEN CompiledRule(strip(SubSeq(rule_line, 2, Len(rule_line))), ADDITIVE_INCLUDE, rule_line)
    ELSE IF startswith(rule_line, "-")
    THEN CompiledRule(strip(SubSeq(rule_line, 2, Len(rule_line))), EXPLICIT_EXCLUDE, rule_line)
    ELSE CompiledRule(rule_line, ADDITIVE_INCLUDE, rule_line)

\* compile_stage_1_rules of src/CodeDump/dump.py
RECURSIVE compile_stage_1_rules_CodeDump(_)
compile_stage_1_rules_CodeDump(rules_list) ==
    IF rules_list = <<>> THEN <<>>
    ELSE LET r == classify_rule_line_CodeDump(Head(rules_list))
         IN  (IF r.pattern.valid THEN <<r>> ELSE <<>>)
                \o compile_stage_1_rules_CodeDump(Tail(rules_list))

\* first match wins: the loop stops at the first rule that matches
RECURSIVE stage_1_loop_first_match(_, _, _, _)
stage_1_loop_first_match(file_path, rules, i, win) ==
    IF i > Len(rules) THEN win
    ELSE IF match_file(rules[i].pattern, file_path)
         THEN [outcome |-> rules[i].outcome, winning_rule |-> <<rules[i].rule_line>>]
         ELSE stage_1_loop_first_match(file_path, rules, i + 1, win)

\* the loop of get_stage_1_outcome from rule i on, carrying the winner so far;
\* winning_rule is <<>> for None and <<rule_line>> otherwise
RECURSIVE stage_1_loop(_, _, _, _)
stage_1_loop(file_path, rules, i, win) ==
    IF i > Len(rules) THEN win
    ELSE stage_1_loop(file_path, rules, i + 1,
            IF match_file(rules[i].pattern, file_path)
            THEN [outcome |-> rules[i].outcome, winning_rule |-> <<rules[i].rule_line>>]
            ELSE win)

\* get_stage_1_outcome of src/dump.py
get_stage_1_outcome(file_path, compiled_stage_1_rules) ==
    stage_1_loop(file_path, compiled_stage_1_rules, 1,
                 [outcome |-> DEFAULT_INCLUDE, winning_rule |-> <<>>])

\* the baseline never flipped
get_stage_1_outcome_no_flip(file_path, compiled_stage_1_rules) ==
    stage_1_loop(file_path, compiled_stage_1_rules, 1,
                 [outcome |-> DEFAULT_INCLUDE, winning_rule |-> <<>>])

\* get_stage_1_outcome of src/CodeDump/dump.py: a non-empty rule list turns
\* the starting outcome into EXPLICIT_EXCLUDE
get_stage_1_outcome_CodeDump(file_path, compiled_stage_1_rules) ==
    stage_1_loop(file_path, compiled_stage_1_rules, 1,
                 [outcome |-> IF compiled_stage_1_rules # <<>>
                              THEN EXPLICIT_EXCLUDE ELSE DEFAULT_INCLUDE,
                  winning_rule |-> <<>>])

(***************************************************************************)
(* Stage 2: project ignores                                                *)
(***************************************************************************)

\* load_rules_from_file on the lines of a file: stripped, blank lines and
\* comment lines dropped
RECURSIVE load_rules_from_file(_)
load_rules_from_file(lines) ==
    IF lines = <<>> THEN <<>>
    ELSE LET line == strip(Head(lines))
         IN  (IF line # "" /\ ~startswith(line, "#") THEN <<line>> ELSE <<>>)
                \o load_rules_from_file(Tail(lines))

\* pathspec.PathSpec.from_lines('gitwildmatch', lines): the compiled patterns
RECURSIVE PathSpec_from_lines(_)
PathSpec_from_lines(lines) ==
    IF lines = <<>> THEN <<>>
    ELSE <<GitWildMatchPattern(Head(lines))>> \o PathSpec_from_lines(Tail(lines))

\* spec.match_file(path): the last pattern that matches decides, a negated
\* pattern un-ignoring the path
RECURSIVE PathSpec_match_file(_, _)
PathSpec_match_file(spec, path) ==
    IF spec = <<>> THEN FALSE
    ELSE LET p == spec[Len(spec)]
         IN  IF match_file(p, path) THEN p.include = "yes"
             ELSE PathSpec_match_file(SubSeq(spec, 1, Len(spec) - 1), path)

(***************************************************************************)
(* The run: its inputs, the file system it walks, and the walker's state   *)
(***************************************************************************)

VARIABLES
    rev,                    \* "dump" (src/dump.py) or "CodeDump" (src/CodeDump/dump.py)
    mode,                   \* "static" (explicit filter mode) or "hierarchical"
    args,                   \* [rule, input_dirs, dry_run]
    allowed_extensions,     \* [is_none, exts]
    fs,                     \* [repo, dumpignore, gitignore, up, tree, unreadable]
    pc,                     \* "start", "input", "walk", "files", "done"
    compiled_stage_1_rules, \* the static rule list, or the hierarchical base list
    stage_2_gitignore_spec, \* the root .gitignore spec, <<>> for None
    gitignore_specs_map,    \* CodeDump: directory -> spec
    input_idx,              \* position of the for loop over input_dirs
    walk_stack,             \* os.walk: directories still to yield, next first
    root,                   \* the directory os.walk yielded last
    files,                  \* names of root's files not processed yet
    current_compiled_rules, \* the rule list in force for root
    rules_cache,            \* directory -> compiled rule list
    raw_rules_cache,        \* directory -> raw rule lines
    processed_files,        \* set of relative paths written
    stats,                  \* [scanned_files, included_files, skipped_files]
    outfile,                \* the blocks written, in order: [header, body]
    git_root_cache,         \* _git_root_cache, in insertion order: [cached_path, root]
    output_file,            \* the output artifact: [path, exists, stream_open]
    exit_status,            \* the exit status of the process, -1 while it runs
    last,                   \* the decision of the last step
    hist                    \* what the walk has done so far

vars == <<rev, mode, args, allowed_extensions, fs, pc, compiled_stage_1_rules,
          stage_2_gitignore_spec, gitignore_specs_map, input_idx, walk_stack, root,
          files, current_compiled_rules, rules_cache, raw_rules_cache,
          processed_files, stats, outfile, git_root_cache, output_file, exit_status,
          last, hist>>

inputs == <<rev, mode, args, allowed_extensions, fs>>

\* --- paths; a directory is named by its path relative to the working
\* directory, root_dir itself by "."
root_dir == "."

\* os.path.join(root, name) and f"{rel_root}/{name}", which coincide for
\* directories inside root_dir
join(rel_root, name) == IF rel_root = "." THEN name ELSE rel_root \o "/" \o name

\* the name of the working directory in its parent
cwd_name == "proj"

\* os.path.dirname of a path at or above a directory inside root_dir: ".."
\* is root_dir's parent and "/", its own parent, is the file system root
dirname(d) ==
    LET k == rfind(d, "/", Len(d))
    IN  IF d = "/" \/ d = ".." THEN "/"
        ELSE IF d = "." THEN ".."
        ELSE IF k = 0 THEN "." ELSE SubSeq(d, 1, k - 1)

\* os.path.relpath(file, check_path) with forward slashes, for a file at or
\* beneath check_path
relpath(f_path, check_path) ==
    IF check_path = "." THEN f_path
    ELSE IF check_path = ".." THEN cwd_name \o "/" \o f_path
    ELSE IF check_path = "/" THEN "home/" \o cwd_name \o "/" \o f_path
    ELSE SubSeq(f_path, Len(check_path) + 2, Len(f_path))

\* --- the file system
NoFile == [exists |-> FALSE, lines |-> <<>>]
File(lines) == [exists |-> TRUE, lines |-> lines]

\* the parent of the working directory: whether it holds a .git directory,
\* and its .gitignore
NoUp == [repo |-> FALSE, gitignore |-> NoFile]

\* the two directory trees: the full one, and the one of the end-to-end
\* scenario, which holds a.py, a.log, sub/b.py and the ignore files only
FullTree == "full"
ScenarioTree == "scenario"

TreeDirs ==
    IF fs.tree = ScenarioTree THEN {".", "sub"}
    ELSE {".", "build", "secrets", "sub", "sub/deep"}

\* the directories that can hold a .dumpignore or a .gitignore
IgnoreDirs == {".", "sub"}

\* os.makedirs and open have created .dumps/ and the output file in it: the
\* output path is relative and the run is no dry run
dumps_dir_exists == output_file.exists /\ startswith(output_file.path, ".dumps/")

AllDirs ==
    TreeDirs \cup (IF fs.repo THEN {".git"} ELSE {})
             \cup (IF dumps_dir_exists THEN {".dumps"} ELSE {})

isdir(path) == path \in AllDirs

\* os.listdir: the subdirectories of d, in listing order
listdir_dirs(d) ==
    CASE d = "."   -> (IF dumps_dir_exists THEN <<".dumps">> ELSE <<>>)
                        \o (IF fs.repo THEN <<".git">> ELSE <<>>)
                        \o (IF fs.tree = ScenarioTree THEN <<"sub">>
                            ELSE <<"build", "secrets", "sub">>)
      [] d = "sub" -> IF fs.tree = ScenarioTree THEN <<>> ELSE <<"deep">>
      [] OTHER     -> <<>>

\* the ignore files left out of the listing
dotfiles_not_listed(d) == <<>>

\* the ignore files of d, which os.walk lists like any other file
dotfiles(d) ==
    IF d \in IgnoreDirs
    THEN (IF fs.dumpignore[d].exists THEN <<".dumpignore">> ELSE <<>>)
            \o (IF fs.gitignore[d].exists THEN <<".gitignore">> ELSE <<>>)
    ELSE <<>>

\* os.listdir: the files of d, in listing order
listdir_files(d) ==
    dotfiles(d) \o
    (CASE d \notin AllDirs -> <<>>
       [] d = "."        -> <<"a.log", "a.py">>
       [] d = "build"    -> <<"keep.txt", "other.txt">>
       [] d = "secrets"  -> <<"key.pem", "readme.txt">>
       [] d = "sub"      -> <<"b.py">>
       [] d = "sub/deep" -> <<"R.MD", "n.md">>
       [] d = ".git"     -> <<"HEAD">>
       [] d = ".dumps"   -> <<SubSeq(output_file.path, 8, Len(output_file.path))>>
       [] OTHER          -> <<>>)

\* find_git_root(root_dir): the repository root, "" for None
find_git_root(start_path) == IF fs.repo THEN "." ELSE IF fs.up.repo THEN ".." ELSE ""

\* find_root_gitignore and the load that follows it: the lines of the
\* repository root's .gitignore, <<>> when there is no repository or no file
root_gitignore_rules ==
    IF find_git_root(root_dir) = "." /\ fs.gitignore["."].exists
    THEN load_rules_from_file(fs.gitignore["."].lines)
    ELSE IF find_git_root(root_dir) = ".." /\ fs.up.gitignore.exists
    THEN load_rules_from_file(fs.up.gitignore.lines)
    ELSE <<>>

(***************************************************************************)
(* process_file                                                            *)
(***************************************************************************)

NoRule == <<>>

\* the record of one decision: of process_file on a file (kind "file"), or of
\* the directory filter of a walker on the subdirectories of root (kind "dir")
FileDecision(path, outcome, winning_rule, ignored, ext_matched, verdict) ==
    [kind |-> "file", path |-> path, outcome |-> outcome, winning_rule |-> winning_rule,
     ignored |-> ignored, ext_matched |-> ext_matched, verdict |-> verdict,
     pruned |-> {}, kept |-> {}]

DirDecision(path, pruned, kept) ==
    [kind |-> "dir", path |-> path, outcome |-> "", winning_rule |-> NoRule,
     ignored |-> FALSE, ext_matched |-> FALSE, verdict |-> "",
     pruned |-> pruned, kept |-> kept]

NoDecision == DirDecision("", {}, {}) 

\* Stage 3: the extension filter of process_file
extension_matched(f, allowed) ==
    IF allowed.is_none THEN TRUE
    ELSE LET file_ext == lower(splitext_ext(f))
         IN  ~(file_ext = "" \/ file_ext \notin allowed.exts)

\* what follows the header block of a file in the output
\* A text is held as the sequence of its lines, str.split('\n'): the text
\* "a\nb\n" is <<"a", "b", "">>, the empty text is <<"">>.

\* the concatenation of two texts
text_concat(a, b) == SubSeq(a, 1, Len(a) - 1) \o <<a[Len(a)] \o b[1]>> \o Tail(b)

\* the separator line, '//' followed by 80 '=' (shortened)
SEP == "//===="

\* the '// File: ' line of a header block
FileLine(header_path) == "// File: " \o header_path

\* the header block without the empty line after it
header_text_one_newline(header_path) == <<"", SEP, FileLine(header_path), SEP, "">>

\* the four writes before the try: '\n', separator, file line, separator
\* and an empty line
header_text(header_path) == <<"", SEP, FileLine(header_path), SEP, "", "">>

\* the text of a file whose content the tree does not give
DefaultText == <<"content">>

\* infile.read(): the decoded text of the file
read(file_path) ==
    IF file_path \in DOMAIN fs.content THEN fs.content[file_path] ELSE DefaultText

\* what follows the header block: the content and '\n', or the error marker
\* and '\n\n'
Content   == text_concat(DefaultText, <<"", "">>)
ReadError == <<"// Error reading file", "", "">>

\* the except branch left out: a file that cannot be read gets no marker
write_file_content_no_marker(out, file_path, header_path) ==
    Append(out, [header |-> header_path, body |-> Content])

\* write_file_content: the header block, then the content of the file, or
\* the error marker when open or read raises
write_file_content(out, file_path, header_path) ==
    Append(out, [header |-> header_path,
                 body   |-> IF file_path \in fs.unreadable THEN ReadError
                            ELSE text_concat(read(file_path), <<"", "">>)])

\* the text of the output file after the blocks of out have been written
RECURSIVE outfile_text(_)
outfile_text(out) ==
    IF out = <<>> THEN <<"">>
    ELSE LET block == out[Len(out)]
         IN  text_concat(outfile_text(SubSeq(out, 1, Len(out) - 1)),
                         text_concat(header_text(block.header), block.body))

\* the paths of the header blocks of the output, in order
headers(out) == [i \in 1..Len(out) |-> out[i].header]

\* processed_files.add forgotten
include_file_not_remembered(f_path, processed, st, a, out, decision) ==
    [processed_files |-> processed,
     stats           |-> [st EXCEPT !.included_files = @ + 1],
     outfile         |-> IF a.dry_run THEN out ELSE write_file_content(out, f_path, f_path),
     last            |-> decision]

\* the inclusion branch of process_file: count, and unless --dry-run write
\* the file and remember its path
include_file(f_path, processed, st, a, out, decision) ==
    [processed_files |-> IF a.dry_run THEN processed ELSE processed \cup {f_path},
     stats           |-> [st EXCEPT !.included_files = @ + 1],
     outfile         |-> IF a.dry_run THEN out ELSE write_file_content(out, f_path, f_path),
     last            |-> decision]

\* a skip branch of process_file
skip_file(processed, st, out, decision) ==
    [processed_files |-> processed,
     stats           |-> [st EXCEPT !.skipped_files = @ + 1],
     outfile         |-> out,
     last            |-> decision]

\* Stage 2 run for every outcome and checked before the force-include branch
process_file_stage_2_first(f, f_path, rules, spec, allowed, processed, st, a, out) ==
    LET st1 == [st EXCEPT !.scanned_files = @ + 1]
    IN  IF f_path \in processed
        THEN [processed_files |-> processed, stats |-> st1, outfile |-> out,
              last |-> FileDecision(f_path, "", NoRule, FALSE, FALSE, "already")]
        ELSE
          LET s1  == get_stage_1_outcome(f_path, rules)
              ign == spec # <<>> /\ PathSpec_match_file(spec, f_path)
              ext == extension_matched(f, allowed)
              dec(v) == FileDecision(f_path, s1.outcome, s1.winning_rule, ign, ext, v)
          IN  IF ign \/ s1.outcome = EXPLICIT_EXCLUDE \/ ~ext
              THEN skip_file(processed, st1, out, dec("skip"))
              ELSE include_file(f_path, processed, st1, a, out, dec("include"))

\* process_file of src/dump.py
process_file(f, f_path, rules, spec, allowed, processed, st, a, out) ==
    LET st1 == [st EXCEPT !.scanned_files = @ + 1]
    IN  IF f_path \in processed
        THEN [processed_files |-> processed, stats |-> st1, outfile |-> out,
              last |-> FileDecision(f_path, "", NoRule, FALSE, FALSE, "already")]
        ELSE
          LET s1  == get_stage_1_outcome(f_path, rules)
              ign == IF s1.outcome \in {ADDITIVE_INCLUDE, DEFAULT_INCLUDE} /\ spec # <<>>
                     THEN PathSpec_match_file(spec, f_path)
                     ELSE FALSE
              ext == extension_matched(f, allowed)
              dec(v) == FileDecision(f_path, s1.outcome, s1.winning_rule, ign, ext, v)
          IN  IF s1.outcome = FORCE_INCLUDE
              THEN (IF ext THEN include_file(f_path, processed, st1, a, out, dec("include"))
                           ELSE skip_file(processed, st1, out, dec("skip")))
              ELSE IF s1.outcome = EXPLICIT_EXCLUDE
              THEN skip_file(processed, st1, out, dec("skip"))
              ELSE IF ign
              THEN skip_file(processed, st1, out, dec("skip"))
              ELSE IF ~ext
              THEN skip_file(processed, st1, out, dec("skip"))
              ELSE include_file(f_path, processed, st1, a, out, dec("include"))

\* the directories from d up to the file system root, d first
RECURSIVE chain_up(_)
chain_up(d) == IF d = "/" THEN <<"/">> ELSE <<d>> \o chain_up(dirname(d))

\* the nearest spec found decides alone: the loop returns its verdict
RECURSIVE check_nested_gitignore_nearest(_, _, _)
check_nested_gitignore_nearest(f_path, check_path, specs_map) ==
    IF check_path \in DOMAIN specs_map
    THEN PathSpec_match_file(specs_map[check_path], relpath(f_path, check_path))
    ELSE IF dirname(check_path) = check_path THEN FALSE
    ELSE check_nested_gitignore_nearest(f_path, dirname(check_path), specs_map)

\* check_nested_gitignore of src/CodeDump/dump.py: the loop from
\* current_dir_abs upward, left with True at the first spec that matches
RECURSIVE check_nested_gitignore(_, _, _)
check_nested_gitignore(f_path, check_path, specs_map) ==
    IF check_path \in DOMAIN specs_map
       /\ PathSpec_match_file(specs_map[check_path], relpath(f_path, check_path))
    THEN TRUE
    ELSE IF dirname(check_path) = check_path THEN FALSE
    ELSE check_nested_gitignore(f_path, dirname(check_path), specs_map)

\* process_file of src/CodeDump/dump.py
process_file_CodeDump(f, f_path, dir, rules, specs_map, allowed, processed, st, a, out) ==
    LET st1 == [st EXCEPT !.scanned_files = @ + 1]
    IN  IF f_path \in processed
        THEN [processed_files |-> processed, stats |-> st1, outfile |-> out,
              last |-> FileDecision(f_path, "", NoRule, FALSE, FALSE, "already")]
        ELSE
          LET s1  == get_stage_1_outcome_CodeDump(f_path, rules)
              ign == IF s1.outcome \in {ADDITIVE_INCLUDE, DEFAULT_INCLUDE}
                        /\ DOMAIN specs_map # {}
                     THEN check_nested_gitignore(f_path, dir, specs_map)
                     ELSE FALSE
              ext == extension_matched(f, allowed)
              dec(v) == FileDecision(f_path, s1.outcome, s1.winning_rule, ign, ext, v)
          IN  IF s1.outcome = FORCE_INCLUDE
              THEN include_file(f_path, processed, st1, a, out, dec("include"))
              ELSE IF s1.outcome = EXPLICIT_EXCLUDE
              THEN skip_file(processed, st1, out, dec("skip"))
              ELSE IF ign
              THEN skip_file(processed, st1, out, dec("skip"))
              ELSE IF ~ext
              THEN skip_file(processed, st1, out, dec("skip"))
              ELSE include_file(f_path, processed, st1, a, out, dec("include"))

(***************************************************************************)
(* The walkers                                                             *)
(***************************************************************************)

\* the static walker is entered from the explicit-mode branch only
is_explicit_mode == mode = "static"

\* f"{rel_root}/{d}/": the path of a subdirectory as the rules see it
dir_path(rel_root, d) == join(rel_root, d) \o "/"

\* the explicit-mode guard left out: an excluded directory is pruned
RECURSIVE static_temp_dirs_prune_always(_, _, _)
static_temp_dirs_prune_always(dirs, rel_root, rules) ==
    IF dirs = <<>> THEN <<>>
    ELSE LET s1 == get_stage_1_outcome(dir_path(rel_root, Head(dirs)), rules)
         IN  (IF s1.outcome = EXPLICIT_EXCLUDE THEN <<>> ELSE <<Head(dirs)>>)
                \o static_temp_dirs_prune_always(Tail(dirs), rel_root, rules)

\* the not of the guard lost: pruning happens in explicit mode only
RECURSIVE static_temp_dirs_not_lost(_, _, _)
static_temp_dirs_not_lost(dirs, rel_root, rules) ==
    IF dirs = <<>> THEN <<>>
    ELSE LET s1 == get_stage_1_outcome(dir_path(rel_root, Head(dirs)), rules)
         IN  (IF is_explicit_mode /\ s1.outcome = EXPLICIT_EXCLUDE
              THEN <<>> ELSE <<Head(dirs)>>)
                \o static_temp_dirs_not_lost(Tail(dirs), rel_root, rules)

\* the directory filter of walk_and_process_static (src/dump.py): the names
\* kept, in order
RECURSIVE static_temp_dirs(_, _, _)
static_temp_dirs(dirs, rel_root, rules) ==
    IF dirs = <<>> THEN <<>>
    ELSE LET s1 == get_stage_1_outcome(dir_path(rel_root, Head(dirs)), rules)
         IN  (IF (~is_explicit_mode) /\ s1.outcome = EXPLICIT_EXCLUDE
              THEN <<>> ELSE <<Head(dirs)>>)
                \o static_temp_dirs(Tail(dirs), rel_root, rules)

\* a directory the project ignore matches is pruned too
RECURSIVE hierarchical_temp_dirs_stage_2(_, _, _)
hierarchical_temp_dirs_stage_2(dirs, rel_root, rules) ==
    IF dirs = <<>> THEN <<>>
    ELSE LET s1 == get_stage_1_outcome(dir_path(rel_root, Head(dirs)), rules)
         IN  (IF s1.outcome = EXPLICIT_EXCLUDE
                 \/ PathSpec_match_file(stage_2_gitignore_spec, dir_path(rel_root, Head(dirs)))
              THEN <<>> ELSE <<Head(dirs)>>)
                \o hierarchical_temp_dirs_stage_2(Tail(dirs), rel_root, rules)

\* the directory path tested without its trailing slash
RECURSIVE hierarchical_temp_dirs_no_slash(_, _, _)
hierarchical_temp_dirs_no_slash(dirs, rel_root, rules) ==
    IF dirs = <<>> THEN <<>>
    ELSE LET s1 == get_stage_1_outcome(join(rel_root, Head(dirs)), rules)
         IN  (IF s1.outcome = EXPLICIT_EXCLUDE THEN <<>> ELSE <<Head(dirs)>>)
                \o hierarchical_temp_dirs_no_slash(Tail(dirs), rel_root, rules)

\* the filtered list never assigned back to dirs: every directory is kept
hierarchical_temp_dirs_not_assigned(dirs, rel_root, rules) == dirs

\* the directory filter of walk_and_process_hierarchical (src/dump.py)
RECURSIVE hierarchical_temp_dirs(_, _, _)
hierarchical_temp_dirs(dirs, rel_root, rules) ==
    IF dirs = <<>> THEN <<>>
    ELSE LET s1 == get_stage_1_outcome(dir_path(rel_root, Head(dirs)), rules)
         IN  (IF s1.outcome = EXPLICIT_EXCLUDE THEN <<>> ELSE <<Head(dirs)>>)
                \o hierarchical_temp_dirs(Tail(dirs), rel_root, rules)

\* dirs.remove('.git') of the CodeDump walkers
RECURSIVE remove_git(_)
remove_git(dirs) ==
    IF dirs = <<>> THEN <<>>
    ELSE IF Head(dirs) = ".git" THEN Tail(dirs)
    ELSE <<Head(dirs)>> \o remove_git(Tail(dirs))

Range(seq) == {seq[i] : i \in 1..Len(seq)}

\* the stack of os.walk after root's kept subdirectories are pushed
push_dirs(d, kept, stack) ==
    [i \in 1..Len(kept) |-> join(d, kept[i])] \o stack

\* an input root below the working directory takes its parent's cached list
parent_rules_from_cache(d, abs_input_dir, base, cache, raw_cache) ==
    LET parent_dir == dirname(d)
        top        == d = root_dir
    IN  [compiled |-> IF top THEN base
                      ELSE IF parent_dir \in DOMAIN cache THEN cache[parent_dir] ELSE base,
         raw      |-> IF top THEN <<>>
                      ELSE IF parent_dir \in DOMAIN raw_cache THEN raw_cache[parent_dir]
                      ELSE <<>>,
         new_rules |-> IF ~args.no_dumpignore /\ d \in IgnoreDirs /\ fs.dumpignore[d].exists
                       THEN load_rules_from_file(fs.dumpignore[d].lines)
                       ELSE <<>>]

\* the start of the loop body of the hierarchical walkers: the parent's
\* compiled list and raw lines, and the lines of the directory's .dumpignore
parent_rules(d, abs_input_dir, base, cache, raw_cache) ==
    LET parent_dir == dirname(d)
        top        == d = root_dir \/ d = abs_input_dir
    IN  [compiled |-> IF top THEN base
                      ELSE IF parent_dir \in DOMAIN cache THEN cache[parent_dir] ELSE base,
         raw      |-> IF top THEN <<>>
                      ELSE IF parent_dir \in DOMAIN raw_cache THEN raw_cache[parent_dir]
                      ELSE <<>>,
         new_rules |-> IF ~args.no_dumpignore /\ d \in IgnoreDirs /\ fs.dumpignore[d].exists
                       THEN load_rules_from_file(fs.dumpignore[d].lines)
                       ELSE <<>>]

\* current_raw_rules of the hierarchical walkers
current_raw(pr) == IF pr.new_rules # <<>> THEN pr.raw \o pr.new_rules ELSE pr.raw

\* the local rules put before the inherited ones
current_compiled_local_first(pr) ==
    IF pr.new_rules # <<>> THEN compile_stage_1_rules(pr.new_rules \o pr.raw)
    ELSE pr.compiled

\* current_compiled_rules of walk_and_process_hierarchical (src/dump.py)
current_compiled(pr) ==
    IF pr.new_rules # <<>> THEN compile_stage_1_rules(pr.raw \o pr.new_rules)
    ELSE pr.compiled

\* current_compiled_rules of walk_and_process_hierarchical (src/CodeDump/dump.py)
current_compiled_CodeDump(pr) ==
    IF pr.new_rules # <<>> THEN compile_stage_1_rules_CodeDump(pr.raw \o pr.new_rules)
    ELSE pr.compiled

\* an entry that exists is kept: setdefault in place of the assignment
Put_setdefault(f, k, v) ==
    [x \in DOMAIN f \cup {k} |-> IF x \in DOMAIN f THEN f[x] ELSE v]

\* f[k] = v added to or replaced in the dictionary f
Put(f, k, v) == [x \in DOMAIN f \cup {k} |-> IF x = k THEN v ELSE f[x]]

EmptyMap == [x \in {} |-> <<>>]

(***************************************************************************)
(* Inputs                                                                  *)
(***************************************************************************)

\* the longest rule list drawn from RuleAlphabet
MaxRules == 2

RuleAlphabet == {"*", "+*.py", "!*.md", "- *.log", "build/"}

RECURSIVE SeqsUpTo(_, _)
SeqsUpTo(S, n) ==
    IF n = 0 THEN {<<>>}
    ELSE LET shorter == SeqsUpTo(S, n - 1)
         IN  shorter \cup {Append(q, e) : q \in {r \in shorter : Len(r) = n - 1}, e \in S}

\* rule lists of the usage examples and of the specification's scenarios
ExampleRules ==
    { <<"*", "+*.py", "!*.md">>,
      <<"*", "+*.py", "+*.md">>,
      <<"*.log", "!a.log">>,
      <<"build/", "!build/keep.txt">>,
      <<"- sub/", "!sub/deep/n.md">>,
      <<"!secrets/readme.txt">>,
      <<"!!", "secrets/", "+secrets/key.pem">>,
      <<"!!">> }

\* the rule lists of --rule in explicit mode
\* the output_file argument: an absolute path outside the tree walked, or a
\* bare name, which puts the file under .dumps/ in the working directory
AbsOutput == "/out/dump.txt"
RelOutput == "dump"

RuleLists == SeqsUpTo(RuleAlphabet, MaxRules) \cup ExampleRules

\* the contents of the .dumpignore files of "." and "sub"
DumpignoreChoices ==
    { [d \in IgnoreDirs |-> NoFile],
      [d \in IgnoreDirs |-> IF d = "." THEN File(<<"build/", "!build/keep.txt">>) ELSE NoFile],
      [d \in IgnoreDirs |-> IF d = "." THEN File(<<"!secrets/readme.txt">>) ELSE NoFile],
      [d \in IgnoreDirs |-> IF d = "." THEN File(<<"# logs", "", " *.log ">>)
                            ELSE File(<<"+*.log", "deep/">>)],
      [d \in IgnoreDirs |-> IF d = "." THEN File(<<"*.md", "*.py">>) ELSE File(<<"+*.md">>)],
      [d \in IgnoreDirs |-> IF d = "." THEN File(<<>>) ELSE File(<<"*.py">>)],
      [d \in IgnoreDirs |-> IF d = "." THEN NoFile ELSE File(<<"*.py">>)],
      [d \in IgnoreDirs |-> IF d = "." THEN File(<<"sub/", "!sub/b.py">>) ELSE NoFile] }

\* the repository: none, or one rooted at the working directory
RepoChoices ==
    { [repo |-> FALSE, gitignore |-> [d \in IgnoreDirs |-> NoFile]],
      [repo |-> TRUE,
       gitignore |-> [d \in IgnoreDirs |-> IF d = "." THEN File(<<"secrets/", "*.log">>)
                                           ELSE NoFile]] }

FsChoices(m) ==
    { [repo |-> r.repo, gitignore |-> r.gitignore, dumpignore |-> di, up |-> NoUp,
       tree |-> FullTree, unreadable |-> {}, content |-> EmptyMap] :
        r \in RepoChoices,
        di \in IF m = "hierarchical" THEN DumpignoreChoices
               ELSE {[d \in IgnoreDirs |-> NoFile]} }

\* the lists of input directories: "nope" does not exist
RootLists == { <<".">>, <<"sub">>, <<"nope", "sub", ".">> }

\* a root walked again after a root nested in it
RevisitRootLists == { <<".", "sub", ".">> }

ExtChoices == { [is_none |-> TRUE, exts |-> {}], [is_none |-> FALSE, exts |-> {".py", ".md"}] }

ZeroStats == [scanned_files |-> 0, included_files |-> 0, skipped_files |-> 0]

\* scanned: paths handed to process_file; evaluated: those whose Stage 1 ran;
\* included, skipped: those counted so; pruned: subdirectory paths removed
\* from a descent list; visited: directories os.walk yielded; walk_pruned,
\* walk_scanned: pruned and scanned within the os.walk of the current input
NoHist == [scanned |-> {}, evaluated |-> {}, included |-> {}, skipped |-> {},
           pruned |-> {}, visited |-> {}, walk_pruned |-> {}, walk_scanned |-> {},
           positional |-> <<>>]

\* the output file before collect_source_files has run
NoOutputFile == [path |-> "", exists |-> FALSE, stream_open |-> FALSE]

Init ==
    /\ rev \in {"dump", "CodeDump"}
    /\ mode \in {"static", "hierarchical"}
    /\ args \in [rule : IF mode = "static" THEN RuleLists ELSE {<<>>},
                 input_dirs : IF mode = "static" THEN RootLists
                              ELSE RootLists \cup RevisitRootLists,
                 dry_run : BOOLEAN,
                 no_dumpignore : {FALSE},
                 output_file : {AbsOutput},
                 filter_file : {<<>>}]
    /\ allowed_extensions \in ExtChoices
    /\ fs \in FsChoices(mode)
    /\ pc = "start"
    /\ compiled_stage_1_rules = <<>>
    /\ stage_2_gitignore_spec = <<>>
    /\ gitignore_specs_map = EmptyMap
    /\ input_idx = 0
    /\ walk_stack = <<>>
    /\ root = ""
    /\ files = <<>>
    /\ current_compiled_rules = <<>>
    /\ rules_cache = EmptyMap
    /\ raw_rules_cache = EmptyMap
    /\ processed_files = {}
    /\ stats = ZeroStats
    /\ outfile = <<>>
    /\ git_root_cache = <<>>
    /\ output_file = NoOutputFile
    /\ exit_status = -1
    /\ last = NoDecision
    /\ hist = NoHist

(***************************************************************************)
(* Actions                                                                 *)
(***************************************************************************)

\* os.path.isabs
isabs(path) == startswith(path, "/")

\* the path of the output file: under .dumps/ unless absolute, with .txt
\* appended to a name without extension (no file of that name exists yet)
output_path(a) ==
    LET final_base_path == IF isabs(a.output_file) THEN a.output_file
                           ELSE ".dumps/" \o a.output_file
        basename == SubSeq(final_base_path, rfind(final_base_path, "/", Len(final_base_path)) + 1,
                           Len(final_base_path))
    IN  IF splitext_ext(basename) = "" THEN final_base_path \o ".txt"
        ELSE final_base_path

\* with open(os.devnull) if args.dry_run else open(output_file, 'w')
open_output(a) == [path |-> output_path(a), exists |-> ~a.dry_run, stream_open |-> TRUE]

\* leaving the with block, on return or on an exception
close_stream(file) == [file EXCEPT !.stream_open = FALSE]

\* the except branch without its os.remove
error_cleanup_keeps_file(file, a, out) == file

\* the except branch of collect_source_files: a file of size 0 is removed
error_cleanup(file, a, out) ==
    IF ~a.dry_run /\ file.exists /\ out = <<>>
    THEN [file EXCEPT !.exists = FALSE]
    ELSE file

\* the clean-up after the summary in src/dump.py: a file of size 0 is
\* removed (src/CodeDump/dump.py leaves it)
final_cleanup(file, a, out) ==
    IF ~a.dry_run /\ out = <<>> /\ file.exists
    THEN [file EXCEPT !.exists = FALSE]
    ELSE file

\* for f in args.filter_file: stage_1_rules.extend(load_rules_from_file(f)),
\* a path that names no file giving no rule
RECURSIVE filter_file_rules(_)
filter_file_rules(filter_file) ==
    IF filter_file = <<>> THEN <<>>
    ELSE (IF Head(filter_file).exists THEN load_rules_from_file(Head(filter_file).lines)
          ELSE <<>>)
            \o filter_file_rules(Tail(filter_file))

\* the --rule values followed by the rules of the filter files
stage_1_rules_CodeDump(a) == a.rule \o filter_file_rules(a.filter_file)

\* elif read as a second if: the filter files are loaded after --rule
stage_1_rules_merged(a) == a.rule \o filter_file_rules(a.filter_file)

\* stage_1_rules of build_static_rulesets in src/dump.py: the --rule values
\* if there are any, else the rules of the filter files
stage_1_rules(a) ==
    IF a.rule # <<>> THEN a.rule
    ELSE IF a.filter_file # <<>> THEN filter_file_rules(a.filter_file)
    ELSE <<>>

\* collect_source_files: build the rule sets of the mode and enter the
\* walker, up to its loop over input_dirs
collect_source_files ==
    /\ pc = "start"
    /\ LET spec == PathSpec_from_lines(root_gitignore_rules)
       IN  /\ stage_2_gitignore_spec' = spec
           /\ gitignore_specs_map' =
                IF rev = "CodeDump" /\ spec # <<>>
                   /\ (mode = "static" \/ find_git_root(root_dir) # "")
                THEN Put(EmptyMap, IF mode = "static" THEN root_dir ELSE find_git_root(root_dir),
                         spec)
                ELSE EmptyMap
    /\ compiled_stage_1_rules' =
         IF mode = "static"
         THEN (IF rev = "dump" THEN compile_stage_1_rules(stage_1_rules(args))
                               ELSE compile_stage_1_rules_CodeDump(stage_1_rules_CodeDump(args)))
         ELSE <<>>
    /\ rules_cache' = IF mode = "hierarchical" THEN Put(EmptyMap, root_dir, <<>>) ELSE EmptyMap
    /\ raw_rules_cache' = IF mode = "hierarchical" THEN Put(EmptyMap, root_dir, <<>>)
                          ELSE EmptyMap
    /\ input_idx' = 1
    /\ pc' = "input"
    /\ git_root_cache' = Append(git_root_cache, [cached_path |-> root_dir,
                                                  root |-> find_git_root(root_dir)])
    /\ output_file' = open_output(args)
    /\ UNCHANGED <<inputs, exit_status, walk_stack, root, files, current_compiled_rules,
                   processed_files, stats, outfile, last, hist>>

\* for input_dir in input_dirs: a directory starts an os.walk
enter_input_dir ==
    /\ pc = "input"
    /\ input_idx <= Len(args.input_dirs)
    /\ isdir(args.input_dirs[input_idx])
    /\ walk_stack' = <<args.input_dirs[input_idx]>>
    /\ pc' = "walk"
    /\ hist' = [hist EXCEPT !.walk_pruned = {}, !.walk_scanned = {}]
    /\ UNCHANGED <<inputs, git_root_cache, output_file, exit_status, compiled_stage_1_rules, stage_2_gitignore_spec,
                   gitignore_specs_map, input_idx, root, files, current_compiled_rules,
                   rules_cache, raw_rules_cache, processed_files, stats, outfile, last>>

\* break in place of continue: the first invalid input ends the loop
skip_input_dir_break ==
    /\ pc = "input"
    /\ input_idx <= Len(args.input_dirs)
    /\ ~isdir(args.input_dirs[input_idx])
    /\ input_idx' = Len(args.input_dirs) + 1
    /\ UNCHANGED <<inputs, git_root_cache, output_file, exit_status, pc, compiled_stage_1_rules, stage_2_gitignore_spec,
                   gitignore_specs_map, walk_stack, root, files, current_compiled_rules,
                   rules_cache, raw_rules_cache, processed_files, stats, outfile, last, hist>>

\* for input_dir in input_dirs: what is no directory is skipped
skip_input_dir ==
    /\ pc = "input"
    /\ input_idx <= Len(args.input_dirs)
    /\ ~isdir(args.input_dirs[input_idx])
    /\ input_idx' = input_idx + 1
    /\ UNCHANGED <<inputs, git_root_cache, output_file, exit_status, pc, compiled_stage_1_rules, stage_2_gitignore_spec,
                   gitignore_specs_map, walk_stack, root, files, current_compiled_rules,
                   rules_cache, raw_rules_cache, processed_files, stats, outfile, last, hist>>

\* os.walk of one input directory is exhausted: on to the next one
end_walk ==
    /\ pc = "walk"
    /\ walk_stack = <<>>
    /\ input_idx' = input_idx + 1
    /\ pc' = "input"
    /\ UNCHANGED <<inputs, git_root_cache, output_file, exit_status, compiled_stage_1_rules, stage_2_gitignore_spec,
                   gitignore_specs_map, walk_stack, root, files, current_compiled_rules,
                   rules_cache, raw_rules_cache, processed_files, stats, outfile, last, hist>>

\* the loop over input_dirs is over: the walker returns
finish ==
    /\ pc = "input"
    /\ input_idx > Len(args.input_dirs)
    /\ pc' = "done"
    /\ output_file' = IF rev = "dump"
                      THEN final_cleanup(close_stream(output_file), args, outfile)
                      ELSE close_stream(output_file)
    /\ exit_status' = 0
    /\ UNCHANGED <<inputs, git_root_cache, compiled_stage_1_rules, stage_2_gitignore_spec,
                   gitignore_specs_map, input_idx, walk_stack, root, files,
                   current_compiled_rules, rules_cache, raw_rules_cache, processed_files,
                   stats, outfile, last, hist>>

\* os.walk yields directory d with its subdirectories filtered down to kept:
\* what every walker does with the result
yield_dir(d, kept) ==
    LET dirs   == listdir_dirs(d)
        pruned == {dir_path(d, n) : n \in Range(dirs) \ (Range(kept) \cup {".git"})}
    IN  /\ root' = d
        /\ walk_stack' = push_dirs(d, kept, Tail(walk_stack))
        /\ files' = listdir_files(d)
        /\ pc' = IF listdir_files(d) = <<>> THEN "walk" ELSE "files"
        /\ stats' = [stats EXCEPT !.scanned_files = @ + Cardinality(pruned),
                                  !.skipped_files = @ + Cardinality(pruned)]
        /\ last' = DirDecision(d, pruned, {dir_path(d, n) : n \in Range(kept)})
        /\ hist' = [hist EXCEPT !.visited = @ \cup {d}, !.pruned = @ \cup pruned,
                                 !.walk_pruned = @ \cup pruned]
        /\ UNCHANGED <<inputs, git_root_cache, output_file, exit_status, compiled_stage_1_rules, stage_2_gitignore_spec, input_idx,
                       processed_files, outfile>>

\* walk_and_process_static of src/dump.py: one directory of os.walk
walk_and_process_static ==
    /\ pc = "walk" /\ walk_stack # <<>>
    /\ rev = "dump" /\ mode = "static"
    /\ LET d == Head(walk_stack)
       IN  yield_dir(d, static_temp_dirs(listdir_dirs(d), d, compiled_stage_1_rules))
    /\ UNCHANGED <<gitignore_specs_map, current_compiled_rules, rules_cache, raw_rules_cache>>

\* walk_and_process_static of src/CodeDump/dump.py: one directory of os.walk
walk_and_process_static_CodeDump ==
    /\ pc = "walk" /\ walk_stack # <<>>
    /\ rev = "CodeDump" /\ mode = "static"
    /\ LET d == Head(walk_stack)
       IN  yield_dir(d, remove_git(listdir_dirs(d)))
    /\ UNCHANGED <<gitignore_specs_map, current_compiled_rules, rules_cache, raw_rules_cache>>

\* walk_and_process_hierarchical of src/dump.py: one directory of os.walk
walk_and_process_hierarchical ==
    /\ pc = "walk" /\ walk_stack # <<>>
    /\ rev = "dump" /\ mode = "hierarchical"
    /\ LET d  == Head(walk_stack)
           pr == parent_rules(d, args.input_dirs[input_idx], compiled_stage_1_rules,
                              rules_cache, raw_rules_cache)
       IN  /\ current_compiled_rules' = current_compiled(pr)
           /\ rules_cache' = Put(rules_cache, d, current_compiled(pr))
           /\ raw_rules_cache' = Put(raw_rules_cache, d, current_raw(pr))
           /\ yield_dir(d, hierarchical_temp_dirs(listdir_dirs(d), d, current_compiled(pr)))
    /\ UNCHANGED gitignore_specs_map

\* walk_and_process_hierarchical of src/CodeDump/dump.py: one directory
walk_and_process_hierarchical_CodeDump ==
    /\ pc = "walk" /\ walk_stack # <<>>
    /\ rev = "CodeDump" /\ mode = "hierarchical"
    /\ LET d  == Head(walk_stack)
           pr == parent_rules(d, args.input_dirs[input_idx], compiled_stage_1_rules,
                              rules_cache, raw_rules_cache)
           new_git_rules ==
               IF d \in IgnoreDirs /\ fs.gitignore[d].exists
               THEN load_rules_from_file(fs.gitignore[d].lines) ELSE <<>>
       IN  /\ current_compiled_rules' = current_compiled_CodeDump(pr)
           /\ rules_cache' = Put(rules_cache, d, current_compiled_CodeDump(pr))
           /\ raw_rules_cache' = Put(raw_rules_cache, d, current_raw(pr))
           /\ gitignore_specs_map' =
                IF new_git_rules # <<>>
                THEN Put(gitignore_specs_map, d, PathSpec_from_lines(new_git_rules))
                ELSE gitignore_specs_map
           /\ yield_dir(d, remove_git(listdir_dirs(d)))

\* the rule list the walker passes to process_file
rules_in_force ==
    IF mode = "static" THEN compiled_stage_1_rules ELSE current_compiled_rules

\* the state after process_file returned r for the file f_path
after_process_file(f_path, r) ==
    /\ processed_files' = r.processed_files
    /\ stats' = r.stats
    /\ outfile' = r.outfile
    /\ last' = r.last
    /\ hist' = [hist EXCEPT
                  !.scanned   = @ \cup {f_path},
                  !.walk_scanned = @ \cup {f_path},
                  !.evaluated = IF r.last.verdict = "already" THEN @ ELSE @ \cup {f_path},
                  !.included  = IF r.last.verdict = "include" THEN @ \cup {f_path} ELSE @,
                  !.skipped   = IF r.last.verdict = "skip" THEN @ \cup {f_path} ELSE @]
    /\ files' = Tail(files)
    /\ pc' = IF Tail(files) = <<>> THEN "walk" ELSE "files"
    /\ UNCHANGED <<inputs, git_root_cache, output_file, exit_status, compiled_stage_1_rules, stage_2_gitignore_spec,
                   gitignore_specs_map, input_idx, walk_stack, root,
                   current_compiled_rules, rules_cache, raw_rules_cache>>

\* for f, f_path in zip(files, file_paths): process_file, in src/dump.py
process_next_file ==
    /\ pc = "files" /\ rev = "dump"
    /\ LET f      == Head(files)
           f_path == join(root, f)
       IN  after_process_file(f_path,
              process_file(f, f_path, rules_in_force, stage_2_gitignore_spec,
                           allowed_extensions, processed_files, stats, args, outfile))

\* for f, f_path in zip(files, file_paths): process_file, in src/CodeDump/dump.py
process_next_file_CodeDump ==
    /\ pc = "files" /\ rev = "CodeDump"
    /\ LET f      == Head(files)
           f_path == join(root, f)
       IN  after_process_file(f_path,
              process_file_CodeDump(f, f_path, root, rules_in_force, gitignore_specs_map,
                                    allowed_extensions, processed_files, stats, args, outfile))

Next ==
    \/ collect_source_files
    \/ enter_input_dir
    \/ skip_input_dir
    \/ end_walk
    \/ finish
    \/ walk_and_process_static
    \/ walk_and_process_static_CodeDump
    \/ walk_and_process_hierarchical
    \/ walk_and_process_hierarchical_CodeDump
    \/ process_next_file
    \/ process_next_file_CodeDump

Spec == Init /\ [][Next]_vars

(***************************************************************************)
(* The runs with nested .gitignore files and with the working directory   *)
(* below the repository root                                               *)
(***************************************************************************)

\* the repository and its ignore files: a root and a nested .gitignore; a
\* nested .gitignore alone; the repository root one level above the working
\* directory, with patterns relative to that root
GitFsRepoChoices ==
    { [repo |-> TRUE, up |-> NoUp,
       gitignore |-> [d \in IgnoreDirs |-> IF d = "." THEN File(<<"secrets/", "*.md">>)
                                           ELSE File(<<"/b.py", "!deep/n.md">>)]],
      [repo |-> TRUE, up |-> NoUp,
       gitignore |-> [d \in IgnoreDirs |-> IF d = "." THEN NoFile ELSE File(<<"*.py">>)]],
      [repo |-> FALSE,
       up |-> [repo |-> TRUE, gitignore |-> File(<<"/a.py", "proj/a.log", "*.pem">>)],
       gitignore |-> [d \in IgnoreDirs |-> NoFile]] }

GitDumpignoreChoices ==
    { [d \in IgnoreDirs |-> NoFile],
      [d \in IgnoreDirs |-> IF d = "." THEN File(<<"+*.md", "+*.py">>) ELSE NoFile] }

GitFsChoices(m) ==
    { [repo |-> r.repo, gitignore |-> r.gitignore, dumpignore |-> di, up |-> r.up,
       tree |-> FullTree, unreadable |-> {}, content |-> EmptyMap] :
        r \in GitFsRepoChoices,
        di \in IF m = "hierarchical" THEN GitDumpignoreChoices
               ELSE {[d \in IgnoreDirs |-> NoFile]} }

GitRuleLists == { <<>>, <<"+*.py", "+*.md">>, <<"+*", "!*.pem">> }

InitGit ==
    /\ rev \in {"dump", "CodeDump"}
    /\ mode \in {"static", "hierarchical"}
    /\ args \in [rule : IF mode = "static" THEN GitRuleLists ELSE {<<>>},
                 input_dirs : {<<".">>, <<"nope", "sub">>},
                 dry_run : BOOLEAN,
                 no_dumpignore : {FALSE},
                 output_file : {AbsOutput},
                 filter_file : {<<>>}]
    /\ allowed_extensions \in {[is_none |-> TRUE, exts |-> {}]}
    /\ fs \in GitFsChoices(mode)
    /\ pc = "start"
    /\ compiled_stage_1_rules = <<>>
    /\ stage_2_gitignore_spec = <<>>
    /\ gitignore_specs_map = EmptyMap
    /\ input_idx = 0
    /\ walk_stack = <<>>
    /\ root = ""
    /\ files = <<>>
    /\ current_compiled_rules = <<>>
    /\ rules_cache = EmptyMap
    /\ raw_rules_cache = EmptyMap
    /\ processed_files = {}
    /\ stats = ZeroStats
    /\ outfile = <<>>
    /\ git_root_cache = <<>>
    /\ output_file = NoOutputFile
    /\ exit_status = -1
    /\ last = NoDecision
    /\ hist = NoHist

SpecGit == InitGit /\ [][Next]_vars

(***************************************************************************)
(* The runs over the tree of the end-to-end scenario, with files that      *)
(* cannot be read                                                          *)
(***************************************************************************)

\* sub/.dumpignore holds *.py; there is no other ignore file
ScenarioDumpignore == [d \in IgnoreDirs |-> IF d = "sub" THEN File(<<"*.py">>) ELSE NoFile]

\* the files whose open or read raises
UnreadableChoices == { {}, {"a.log"}, {"a.py", "sub/b.py"} }

ScenarioFsChoices(m) ==
    { [repo |-> FALSE, gitignore |-> [d \in IgnoreDirs |-> NoFile], up |-> NoUp,
       dumpignore |-> IF m = "hierarchical" THEN ScenarioDumpignore
                      ELSE [d \in IgnoreDirs |-> NoFile],
       tree |-> ScenarioTree, unreadable |-> u, content |-> EmptyMap] :
        u \in UnreadableChoices }

ScenarioRuleLists == { <<"*.log">>, <<"+*.py">> }

\* the --filter-file arguments, each given by the file it names: none; two
\* files; a path that names no file, then a file
FilterFileLists ==
    { <<>>,
      <<File(<<"# logs", " *.log ">>), File(<<"!a.log", "", "*.py">>)>>,
      <<NoFile, File(<<"+*.py", "sub/">>)>> }

ScenarioInit(outputs) ==
    /\ rev \in {"dump", "CodeDump"}
    /\ mode \in {"static", "hierarchical"}
    /\ args \in { a \in [rule : IF mode = "static" THEN ScenarioRuleLists \cup {<<>>}
                                 ELSE {<<>>},
                          input_dirs : {<<".">>, <<"nope", "sub", ".">>, <<"sub", "nope", ".">>},
                          dry_run : BOOLEAN,
                          no_dumpignore : {FALSE},
                          output_file : outputs,
                          filter_file : IF mode = "static" THEN FilterFileLists
                                        ELSE {<<>>}] :
                      mode = "static" => (a.rule # <<>> \/ a.filter_file # <<>>) }
    /\ allowed_extensions \in {[is_none |-> TRUE, exts |-> {}]}
    /\ fs \in ScenarioFsChoices(mode)
    /\ pc = "start"
    /\ compiled_stage_1_rules = <<>>
    /\ stage_2_gitignore_spec = <<>>
    /\ gitignore_specs_map = EmptyMap
    /\ input_idx = 0
    /\ walk_stack = <<>>
    /\ root = ""
    /\ files = <<>>
    /\ current_compiled_rules = <<>>
    /\ rules_cache = EmptyMap
    /\ raw_rules_cache = EmptyMap
    /\ processed_files = {}
    /\ stats = ZeroStats
    /\ outfile = <<>>
    /\ git_root_cache = <<>>
    /\ output_file = NoOutputFile
    /\ exit_status = -1
    /\ last = NoDecision
    /\ hist = NoHist

\* the output file lies outside the tree that is walked
InitScenario == ScenarioInit({AbsOutput})

SpecScenario == InitScenario /\ [][Next]_vars

\* the output file lies under .dumps/ in the working directory
InitDumps == ScenarioInit({RelOutput})

SpecDumps == InitDumps /\ [][Next]_vars

(***************************************************************************)
(* The runs in which an exception escapes the walk                         *)
(***************************************************************************)

\* an exception raised inside the try block of collect_source_files, by the
\* open of the output file or anywhere in the walk, reaches its except
\* branch: the with block closes the stream, a file of size 0 is removed and
\* sys.exit(1) ends the process
unexpected_exception ==
    /\ pc \in {"start", "input", "walk", "files"}
    /\ pc' = "aborted"
    /\ output_file' = error_cleanup(close_stream(output_file), args, outfile)
    /\ exit_status' = 1
    /\ UNCHANGED <<inputs, git_root_cache, compiled_stage_1_rules, stage_2_gitignore_spec,
                   gitignore_specs_map, input_idx, walk_stack, root, files,
                   current_compiled_rules, rules_cache, raw_rules_cache, processed_files,
                   stats, outfile, last, hist>>

NextAbort ==
    \/ Next
    \/ unexpected_exception

SpecAbort == InitScenario /\ [][NextAbort]_vars

(***************************************************************************)
(* write_file_content applied to a sequence of included files with given   *)
(* contents                                                                *)
(***************************************************************************)

MaxLines == 3

\* the lines a content is made of
LineAlphabet == {SEP, FileLine("g"), "x", ""}

\* the contents of file f: the texts of up to MaxLines lines
ContentChoices == UNION { [1..n -> LineAlphabet] : n \in 1..MaxLines }

\* the contents of file g
OtherContentChoices == { <<"x">>, <<"">>, <<"x", "">>, <<SEP, FileLine("g")>> }

\* the sequences of files the walk includes
IncludedSequences == { <<"f">>, <<"f", "g">>, <<"g", "f">> }

InitRoundTrip ==
    /\ rev \in {"dump", "CodeDump"}
    /\ mode = "static"
    /\ args = [rule |-> <<>>, input_dirs |-> <<>>, dry_run |-> FALSE, no_dumpignore |-> FALSE,
               output_file |-> AbsOutput, filter_file |-> <<>>]
    /\ allowed_extensions = [is_none |-> TRUE, exts |-> {}]
    /\ fs \in [unreadable : {{}},
                content : { [p \in {"f", "g"} |-> IF p = "f" THEN c ELSE o] :
                              c \in ContentChoices, o \in OtherContentChoices }]
    /\ pc = "write"
    /\ compiled_stage_1_rules = <<>>
    /\ stage_2_gitignore_spec = <<>>
    /\ gitignore_specs_map = EmptyMap
    /\ input_idx = 0
    /\ walk_stack = <<>>
    /\ root = ""
    /\ files \in IncludedSequences
    /\ current_compiled_rules = <<>>
    /\ rules_cache = EmptyMap
    /\ raw_rules_cache = EmptyMap
    /\ processed_files = {}
    /\ stats = ZeroStats
    /\ outfile = <<>>
    /\ git_root_cache = <<>>
    /\ output_file = open_output(args)
    /\ exit_status = -1
    /\ last = NoDecision
    /\ hist = NoHist

\* the next included file is written: write_file_content(outfile, full_path, f_path)
write_included_file ==
    /\ pc = "write" /\ files # <<>>
    /\ outfile' = write_file_content(outfile, Head(files), Head(files))
    /\ files' = Tail(files)
    /\ processed_files' = processed_files \cup {Head(files)}
    /\ UNCHANGED <<inputs, git_root_cache, output_file, exit_status, pc,
                   compiled_stage_1_rules, stage_2_gitignore_spec, gitignore_specs_map,
                   input_idx, walk_stack, root, current_compiled_rules, rules_cache,
                   raw_rules_cache, stats, last, hist>>

NextRoundTrip == write_included_file

SpecRoundTrip == InitRoundTrip /\ [][NextRoundTrip]_vars

(***************************************************************************)
(* The runs of src/CodeDump/dump.py from its command line: the positional  *)
(* paths are turned into rules before the mode is chosen                   *)
(***************************************************************************)

\* str.replace('\\', '/')
RECURSIVE replace_backslash(_)
replace_backslash(s0) ==
    IF s0 = "" THEN ""
    ELSE (IF Ch(s0, 1) = "\\" THEN "/" ELSE Ch(s0, 1)) \o replace_backslash(SubSeq(s0, 2, Len(s0)))

\* c in s
contains(s0, c) == find(s0, c, 1) # 0

\* os.path.basename
basename(path) == SubSeq(path, rfind(path, "/", Len(path)) + 1, Len(path))

\* os.path.dirname of a relative path, "" when it has no directory part
cli_dirname(path) ==
    LET k == rfind(path, "/", Len(path))
    IN  IF k = 0 THEN "" ELSE IF k = 1 THEN "/" ELSE SubSeq(path, 1, k - 1)

\* the directory a path with trailing slashes names
RECURSIVE normpath(_)
normpath(path) ==
    IF Len(path) > 1 /\ endswith(path, "/") THEN normpath(SubSeq(path, 1, Len(path) - 1))
    ELSE path

\* os.path.isfile
isfile(path) ==
    \E d \in AllDirs : \E f \in Range(listdir_files(d)) : join(d, f) = path

\* os.path.isdir of a path as typed on the command line
cli_isdir(path) == isdir(normpath(path))

\* normalize_cli_path: (is_explicit_file, normalized_pattern), the pattern ""
\* for None
normalize_cli_path(raw_path) ==
    IF strip(raw_path) = "" THEN [is_explicit_file |-> FALSE, norm_pattern |-> ""]
    ELSE
      LET path == replace_backslash(strip(raw_path))
          base == basename(path)
      IN  IF isfile(path) THEN [is_explicit_file |-> TRUE, norm_pattern |-> path]
          ELSE IF cli_isdir(path)
          THEN (IF ~contains(path, "*") /\ ~contains(path, "?")
                THEN (IF endswith(path, "/")
                      THEN [is_explicit_file |-> FALSE, norm_pattern |-> path \o "**"]
                      ELSE [is_explicit_file |-> FALSE, norm_pattern |-> path \o "/**"])
                ELSE [is_explicit_file |-> FALSE, norm_pattern |-> path])
          ELSE IF contains(base, ".") /\ ~startswith(base, ".")
          THEN [is_explicit_file |-> TRUE, norm_pattern |-> path]
          ELSE IF ~endswith(path, "*")
          THEN (IF endswith(path, "/")
                THEN [is_explicit_file |-> FALSE, norm_pattern |-> path \o "**"]
                ELSE [is_explicit_file |-> FALSE, norm_pattern |-> path \o "/**"])
          ELSE [is_explicit_file |-> FALSE, norm_pattern |-> path]

\* only the explicit files become rules
cli_rule_files_only(raw_path) ==
    LET n == normalize_cli_path(raw_path)
    IN  IF n.norm_pattern # "" /\ n.is_explicit_file THEN <<"!" \o n.norm_pattern>> ELSE <<>>

\* the rule one positional path appends to args.rule
cli_rule(raw_path) ==
    LET n == normalize_cli_path(raw_path)
    IN  IF n.norm_pattern = "" THEN <<>>
        ELSE IF n.is_explicit_file THEN <<"!" \o n.norm_pattern>>
        ELSE <<n.norm_pattern>>

\* the root one positional path adds to roots_to_scan
cli_root(raw_path) ==
    LET n == normalize_cli_path(raw_path)
    IN  IF n.norm_pattern = "" THEN {}
        ELSE IF n.is_explicit_file
        THEN {IF cli_dirname(raw_path) # "" THEN cli_dirname(raw_path) ELSE "."}
        ELSE IF cli_isdir(raw_path) THEN {raw_path}
        ELSE {"."}

\* the rules appended for the positional paths, in command-line order
RECURSIVE cli_rules(_)
cli_rules(paths) ==
    IF paths = <<>> THEN <<>> ELSE cli_rule(Head(paths)) \o cli_rules(Tail(paths))

roots_to_scan(paths) == UNION {cli_root(paths[i]) : i \in 1..Len(paths)}

\* list(roots_to_scan): the set in any order
ListsOf(S) ==
    {q \in [1..Cardinality(S) -> S] : \A i, j \in 1..Cardinality(S) : i # j => q[i] # q[j]}

MaxPositional == 2

\* the positional paths: blank, a file, a file in a directory, a directory
\* with and without a trailing backslash, a name that does not exist, a file
\* name that does not exist, a wildcard
PositionalAlphabet == {" ", "a.py", "sub/b.py", "sub", "sub\\", "nope", "nope/x.py", "*.py"}

PositionalChoices == UNION { [1..n -> PositionalAlphabet] : n \in 1..MaxPositional }

\* a repository whose root and sub/ hold a .gitignore, with a .dumpignore in
\* sub/
MainFs ==
    [repo |-> TRUE, up |-> NoUp, tree |-> ScenarioTree, unreadable |-> {},
     content |-> EmptyMap,
     gitignore |-> [d \in IgnoreDirs |-> IF d = "." THEN File(<<"*.log">>)
                                         ELSE File(<<"b.py">>)],
     dumpignore |-> ScenarioDumpignore]

InitMain ==
    /\ rev = "CodeDump"
    /\ mode = ""
    /\ args \in [rule : {<<>>, <<"- *.log">>},
                 input_dirs : PositionalChoices,
                 dry_run : BOOLEAN,
                 no_dumpignore : {FALSE},
                 output_file : {AbsOutput},
                 filter_file : {<<>>, <<File(<<"+*.py">>)>>}]
    /\ allowed_extensions \in {[is_none |-> TRUE, exts |-> {}]}
    /\ fs = MainFs
    /\ pc = "main"
    /\ compiled_stage_1_rules = <<>>
    /\ stage_2_gitignore_spec = <<>>
    /\ gitignore_specs_map = EmptyMap
    /\ input_idx = 0
    /\ walk_stack = <<>>
    /\ root = ""
    /\ files = <<>>
    /\ current_compiled_rules = <<>>
    /\ rules_cache = EmptyMap
    /\ raw_rules_cache = EmptyMap
    /\ processed_files = {}
    /\ stats = ZeroStats
    /\ outfile = <<>>
    /\ git_root_cache = <<>>
    /\ output_file = NoOutputFile
    /\ exit_status = -1
    /\ last = NoDecision
    /\ hist = NoHist

\* the argument pre-processing of collect_source_files in
\* src/CodeDump/dump.py, up to the choice of the mode
normalize_arguments ==
    /\ pc = "main" /\ rev = "CodeDump"
    /\ LET rule == args.rule \o cli_rules(args.input_dirs)
       IN  /\ \E q \in ListsOf(roots_to_scan(args.input_dirs)) :
                 args' = [args EXCEPT !.rule = rule, !.input_dirs = q]
           /\ mode' = IF Len(rule) > 0 \/ args.filter_file # <<>> THEN "static"
                      ELSE "hierarchical"
    /\ pc' = "start"
    /\ hist' = [hist EXCEPT !.positional = args.input_dirs]
    /\ UNCHANGED <<rev, allowed_extensions, fs, git_root_cache, output_file, exit_status,
                   compiled_stage_1_rules, stage_2_gitignore_spec, gitignore_specs_map,
                   input_idx, walk_stack, root, files, current_compiled_rules, rules_cache,
                   raw_rules_cache, processed_files, stats, outfile, last>>

\* the steps of a run of src/CodeDump/dump.py
NextMain ==
    \/ normalize_arguments
    \/ collect_source_files
    \/ enter_input_dir
    \/ skip_input_dir
    \/ end_walk
    \/ finish
    \/ walk_and_process_static_CodeDump
    \/ process_next_file_CodeDump

SpecMain == InitMain /\ [][NextMain]_vars

(***************************************************************************)
(* find_git_root and its cache, called for any sequence of start paths     *)
(***************************************************************************)

\* the directories of the tree, by absolute path
AbsDirs == {"/", "/w", "/w/a", "/w/ab", "/w/a/n"}

\* os.path.dirname of an absolute path
os_path_dirname(path) ==
    LET k == rfind(path, "/", Len(path))
    IN  IF k <= 1 THEN "/" ELSE SubSeq(path, 1, k - 1)

\* the while loop of find_git_root: the first directory from path upwards
\* that holds a .git directory, "" for None
RECURSIVE upward_scan(_, _)
upward_scan(path, git) ==
    IF path \in git THEN path
    ELSE LET parent == os_path_dirname(path)
         IN  IF parent = path THEN "" ELSE upward_scan(parent, git)

\* the for loop over _git_root_cache.items(): the index of the first entry
\* whose path is a string prefix of abs_start_path, 0 when there is none
RECURSIVE cache_lookup(_, _, _)
cache_lookup(abs_start_path, cache, i) ==
    IF i > Len(cache) THEN 0
    ELSE IF startswith(abs_start_path, cache[i].cached_path) THEN i
    ELSE cache_lookup(abs_start_path, cache, i + 1)

\* find_git_root with the cache it reads and writes: the root returned and
\* the cache left behind
find_git_root_cached(abs_start_path, cache, git) ==
    LET hit == cache_lookup(abs_start_path, cache, 1)
    IN  IF hit # 0
        THEN [root |-> cache[hit].root, cache |-> cache]
        ELSE LET found == upward_scan(abs_start_path, git)
             IN  [root  |-> found,
                  cache |-> Append(cache, [cached_path |-> abs_start_path, root |-> found])]

GitRootCall(start_path, found) == [kind |-> "find_git_root", path |-> start_path, root |-> found]

\* the process makes calls of find_git_root only; fs.git is the set of
\* directories that hold a .git directory
InitGitRoot ==
    /\ rev \in {"dump", "CodeDump"}
    /\ mode = "static"
    /\ args = [rule |-> <<>>, input_dirs |-> <<>>, dry_run |-> FALSE, no_dumpignore |-> FALSE,
               output_file |-> AbsOutput, filter_file |-> <<>>]
    /\ allowed_extensions = [is_none |-> TRUE, exts |-> {}]
    /\ fs \in [dirs : {AbsDirs}, git : SUBSET AbsDirs]
    /\ pc = "find_git_root"
    /\ compiled_stage_1_rules = <<>>
    /\ stage_2_gitignore_spec = <<>>
    /\ gitignore_specs_map = EmptyMap
    /\ input_idx = 0
    /\ walk_stack = <<>>
    /\ root = ""
    /\ files = <<>>
    /\ current_compiled_rules = <<>>
    /\ rules_cache = EmptyMap
    /\ raw_rules_cache = EmptyMap
    /\ processed_files = {}
    /\ stats = ZeroStats
    /\ outfile = <<>>
    /\ git_root_cache = <<>>
    /\ output_file = NoOutputFile
    /\ exit_status = -1
    /\ last = NoDecision
    /\ hist = NoHist

\* one call find_git_root(start_path)
call_find_git_root ==
    /\ pc = "find_git_root"
    /\ \E start_path \in fs.dirs :
          LET r == find_git_root_cached(start_path, git_root_cache, fs.git)
          IN  /\ git_root_cache' = r.cache
              /\ last' = GitRootCall(start_path, r.root)
    /\ UNCHANGED <<inputs, pc, compiled_stage_1_rules, stage_2_gitignore_spec,
                   gitignore_specs_map, input_idx, walk_stack, root, files,
                   current_compiled_rules, rules_cache, raw_rules_cache, processed_files,
                   stats, outfile, output_file, exit_status, hist>>

NextGitRoot == call_find_git_root

SpecGitRoot == InitGitRoot /\ [][NextGitRoot]_vars

(***************************************************************************)
(* Properties                                                              *)
(***************************************************************************)

\* the indices of the rules of R whose pattern matches path P
MatchIdx(P, R) == {i \in 1..Len(R) : match_file(R[i].pattern, P)}

Max(S) == CHOOSE m \in S : \A k \in S : k <= m

\* process_file has just run Stage 1 on last.path
FileEvaluated == last.kind = "file" /\ last.verdict # "already"

\* C1: last match wins. Whenever process_file evaluates a path that at least
\* one rule in force matches, the outcome and the winning rule it gets from
\* get_stage_1_outcome are those of the matching rule with the highest index,
\* in both revisions.
C1_LastMatchWins ==
    FileEvaluated =>
        LET R == rules_in_force
            M == MatchIdx(last.path, R)
        IN  /\ last.outcome \in FilterOutcome
            /\ M # {} => /\ last.outcome = R[Max(M)].outcome
                         /\ last.winning_rule = <<R[Max(M)].rule_line>>

\* a path two rules with different outcomes match, decided by the later one
C1_Witness ==
    /\ FileEvaluated
    /\ LET R == rules_in_force
           M == MatchIdx(last.path, R)
       IN  /\ \E i, j \in M : i < j /\ R[i].outcome # R[j].outcome /\ j = Max(M)
           /\ last.outcome = R[Max(M)].outcome

\* the Stage-1 outcome of path P under the rule list R with no baseline
\* flip: that of the last rule that matches, DEFAULT_INCLUDE when none does
LastMatchOutcome(P, R) ==
    IF MatchIdx(P, R) = {} THEN DEFAULT_INCLUDE ELSE R[Max(MatchIdx(P, R))].outcome

\* the root .gitignore spec exists and matches path P
ProjectIgnored(P) ==
    stage_2_gitignore_spec # <<>> /\ PathSpec_match_file(stage_2_gitignore_spec, P)

\* C2: final decision precedence of process_file in src/dump.py. A file not
\* yet in the processed set is counted as included (and written, unless
\* --dry-run) iff its outcome is FORCE_INCLUDE and its extension matches, or
\* its outcome is ADDITIVE_INCLUDE or DEFAULT_INCLUDE, the project ignore
\* does not match it and its extension matches; otherwise it is counted as
\* skipped and nothing is written.
C2_FinalDecision ==
    [][ (pc = "files" /\ rev = "dump" /\ join(root, Head(files)) \notin processed_files) =>
          LET f      == Head(files)
              f_path == join(root, f)
              o      == LastMatchOutcome(f_path, rules_in_force)
              g      == ProjectIgnored(f_path)
              e      == extension_matched(f, allowed_extensions)
              inc    == \/ (o = FORCE_INCLUDE /\ e)
                        \/ (o \in {ADDITIVE_INCLUDE, DEFAULT_INCLUDE} /\ ~g /\ e)
          IN  /\ stats'.scanned_files = stats.scanned_files + 1
              /\ IF inc
                 THEN /\ stats'.included_files = stats.included_files + 1
                      /\ stats'.skipped_files = stats.skipped_files
                      /\ headers(outfile') = IF args.dry_run THEN headers(outfile)
                                            ELSE Append(headers(outfile), f_path)
                      /\ processed_files' = IF args.dry_run THEN processed_files
                                            ELSE processed_files \cup {f_path}
                 ELSE /\ stats'.skipped_files = stats.skipped_files + 1
                      /\ stats'.included_files = stats.included_files
                      /\ outfile' = outfile
                      /\ processed_files' = processed_files
    ]_vars

\* a force-included file the project ignore matches has been written
C2_Witness ==
    /\ rev = "dump" /\ FileEvaluated /\ ~args.dry_run
    /\ last.outcome = FORCE_INCLUDE
    /\ ProjectIgnored(last.path)
    /\ last.verdict = "include"
    /\ outfile # <<>> /\ outfile[Len(outfile)].header = last.path

\* the rule list in force for the entries of directory d, once d was visited
RulesFor(d) == IF mode = "static" THEN compiled_stage_1_rules ELSE rules_cache[d]

\* C3: FORCE_INCLUDE bypasses the project ignore across a whole walk of
\* src/dump.py. After a walk of the working directory, a top-level directory
\* the project ignore matches has been descended into unless its own Stage-1
\* outcome pruned it; beneath it every FORCE_INCLUDE file with a matching
\* extension is included and every ADDITIVE_INCLUDE or DEFAULT_INCLUDE file
\* is skipped. Stage 2 is never consulted for a FORCE_INCLUDE or
\* EXPLICIT_EXCLUDE outcome.
C3_ForceBypassesProjectIgnore ==
    /\ (rev = "dump" /\ FileEvaluated /\ last.outcome \in {FORCE_INCLUDE, EXPLICIT_EXCLUDE})
          => ~last.ignored
    /\ (pc = "done" /\ rev = "dump" /\ "." \in Range(args.input_dirs)) =>
          \A n \in Range(listdir_dirs(".")) :
             ProjectIgnored(dir_path(".", n)) =>
               /\ n \in hist.visited <=>
                     ~(mode = "hierarchical"
                       /\ LastMatchOutcome(dir_path(".", n), RulesFor(".")) = EXPLICIT_EXCLUDE)
               /\ n \in hist.visited =>
                     \A f \in Range(listdir_files(n)) :
                        LET f_path == join(n, f)
                            o      == LastMatchOutcome(f_path, RulesFor(n))
                        IN  /\ (o = FORCE_INCLUDE /\ extension_matched(f, allowed_extensions))
                                  => f_path \in hist.included
                            /\ o \in {ADDITIVE_INCLUDE, DEFAULT_INCLUDE}
                                  => f_path \in hist.skipped /\ f_path \notin hist.included

\* the scenario of the claim, in hierarchical mode: .gitignore holds secrets/,
\* the root .dumpignore holds !secrets/readme.txt
C3_Witness ==
    /\ pc = "done" /\ rev = "dump" /\ mode = "hierarchical"
    /\ "." \in Range(args.input_dirs)
    /\ ProjectIgnored("secrets/")
    /\ fs.dumpignore["."].lines = <<"!secrets/readme.txt">>
    /\ "secrets" \in hist.visited
    /\ "secrets/readme.txt" \in hist.included
    /\ "secrets/key.pem" \in hist.skipped

\* every compiled rule the run holds: the static or base list, the list in
\* force, and the cached lists
RulesSeen ==
    Range(compiled_stage_1_rules) \cup Range(current_compiled_rules)
        \cup UNION {Range(rules_cache[d]) : d \in DOMAIN rules_cache}

\* the rest of a rule line after its first character, trimmed
AfterPrefix(rule_line) == strip(SubSeq(rule_line, 2, Len(rule_line)))

\* the classification of a prefixed rule line, the same in both revisions
PrefixedRuleClassified(r) ==
    /\ startswith(r.rule_line, "!") =>
          r.outcome = FORCE_INCLUDE /\ r.pattern_str = AfterPrefix(r.rule_line)
    /\ startswith(r.rule_line, "+") =>
          r.outcome = ADDITIVE_INCLUDE /\ r.pattern_str = AfterPrefix(r.rule_line)
    /\ startswith(r.rule_line, "-") =>
          r.outcome = EXPLICIT_EXCLUDE /\ r.pattern_str = AfterPrefix(r.rule_line)

BareRule(r) ==
    ~(startswith(r.rule_line, "!") \/ startswith(r.rule_line, "+")
        \/ startswith(r.rule_line, "-"))

\* the pattern string a rule line stands for
PatternOf(rule_line) ==
    IF startswith(rule_line, "!") \/ startswith(rule_line, "+") \/ startswith(rule_line, "-")
    THEN AfterPrefix(rule_line) ELSE rule_line

ValidLine(rule_line) == GitWildMatchPattern(PatternOf(rule_line)).valid

RuleLinesOf(compiled) == [i \in 1..Len(compiled) |-> compiled[i].rule_line]

C5_BaselineFlipInBoth ==
    (FileEvaluated /\ mode = "static" /\ MatchIdx(last.path, rules_in_force) = {}) =>
        IF rules_in_force # <<>>
        THEN last.outcome = EXPLICIT_EXCLUDE /\ last.verdict = "skip"
        ELSE last.outcome = DEFAULT_INCLUDE

\* C5 as amended: in explicit mode a path no compiled rule matches gets
\* EXPLICIT_EXCLUDE and is skipped in src/CodeDump/dump.py when the compiled
\* rule list is non-empty; in src/dump.py, and in both revisions with an
\* empty compiled rule list, it gets DEFAULT_INCLUDE.
C5_BaselineFlip ==
    (FileEvaluated /\ mode = "static" /\ MatchIdx(last.path, rules_in_force) = {}) =>
        IF rev = "CodeDump" /\ rules_in_force # <<>>
        THEN last.outcome = EXPLICIT_EXCLUDE /\ last.verdict = "skip"
        ELSE last.outcome = DEFAULT_INCLUDE

\* src/CodeDump/dump.py in explicit mode has skipped a file none of its
\* rules matches
C5_Witness ==
    /\ FileEvaluated /\ mode = "static" /\ rev = "CodeDump"
    /\ rules_in_force # <<>>
    /\ MatchIdx(last.path, rules_in_force) = {}
    /\ last.outcome = EXPLICIT_EXCLUDE /\ last.verdict = "skip"

\* C6: in hierarchical mode the baseline is always DEFAULT_INCLUDE. An entry
\* of a visited directory that no rule of the directory's rule store matches
\* gets DEFAULT_INCLUDE, also when the store is non-empty, in both revisions.
C6_HierarchicalBaseline ==
    (FileEvaluated /\ mode = "hierarchical" /\ MatchIdx(last.path, rules_in_force) = {}) =>
        last.outcome = DEFAULT_INCLUDE

\* path f lies beneath the directory whose rule path is p (p ends with /)
Beneath(f, p) == Len(f) > Len(p) /\ SubSeq(f, 1, Len(p)) = p

\* directory d is the directory r or lies beneath it
Under(d, r) == r = root_dir \/ d = r \/ Beneath(d, r \o "/")

\* the hierarchical walker of src/dump.py has just filtered the
\* subdirectories of last.path
HierarchicalDirStep ==
    rev = "dump" /\ mode = "hierarchical" /\ last.kind = "dir" /\ last.path # ""

BuildScenario ==
    /\ pc = "done" /\ rev = "dump" /\ mode = "hierarchical"
    /\ allowed_extensions.is_none
    /\ root_dir \in Range(args.input_dirs)
    /\ RuleLinesOf(rules_cache[root_dir]) = <<"build/", "!build/keep.txt">>

\* C8 as stated: with the rules build/ and !build/keep.txt in force for the
\* scan root in hierarchical mode, build/ is not pruned, and by the end of the
\* walk build/keep.txt has been included and build/other.txt excluded.
C8_BuildNotPruned ==
    BuildScenario =>
        /\ "build/" \notin hist.pruned
        /\ "build/keep.txt" \in hist.included
        /\ "build/other.txt" \in hist.skipped /\ "build/other.txt" \notin hist.included

\* C8 as amended: with the rules build/ and !build/keep.txt in force for the
\* scan root in hierarchical mode of src/dump.py, and no input root inside
\* build/, the directory build/ is pruned, because its own outcome is
\* EXPLICIT_EXCLUDE (!build/keep.txt does not match the path build/); by the
\* end of the walk neither build/keep.txt nor build/other.txt has been
\* evaluated, and neither is included.
C8_BuildPruned ==
    BuildScenario =>
        /\ LastMatchOutcome("build/", rules_cache[root_dir]) = EXPLICIT_EXCLUDE
        /\ LastMatchOutcome("build/keep.txt", rules_cache[root_dir]) = FORCE_INCLUDE
        /\ "build/" \in hist.pruned
        /\ "build" \notin hist.visited
        /\ {"build/keep.txt", "build/other.txt"} \cap hist.scanned = {}
        /\ {"build/keep.txt", "build/other.txt"} \cap (hist.included \cup Range(headers(outfile))) = {}

\* the walk of the scenario is over and has written other files
C8_Witness ==
    /\ BuildScenario /\ ~args.dry_run
    /\ "build/" \in hist.pruned
    /\ "a.py" \in Range(headers(outfile))

\* the static walker has just filtered the subdirectories of last.path
StaticDirStep == mode = "static" /\ last.kind = "dir" /\ last.path # ""

\* a Stage-1 exclude rule matches the directory path and decides its outcome
ExcludedByRule(d_path) ==
    /\ MatchIdx(d_path, compiled_stage_1_rules) # {}
    /\ compiled_stage_1_rules[Max(MatchIdx(d_path, compiled_stage_1_rules))].outcome
          = EXPLICIT_EXCLUDE

\* C9 as stated: in explicit mode the static walker prunes a subdirectory
\* when a Stage-1 exclude rule matches the directory itself and descends into
\* every subdirectory whose own outcome is anything else.
C9_StaticPrunesExcluded ==
    StaticDirStep =>
        \A n \in Range(listdir_dirs(last.path)) \ {".git"} :
            dir_path(last.path, n) \in last.pruned <=> ExcludedByRule(dir_path(last.path, n))

\* C9 as amended: in explicit mode the static walker prunes nothing. It
\* descends into every subdirectory whatever its own Stage-1 outcome, also
\* one that an exclude rule matches; src/CodeDump/dump.py only leaves out .git.
C9_StaticNeverPrunes ==
    /\ mode = "static" => hist.pruned = {}
    /\ StaticDirStep =>
          LET names == IF rev = "dump" THEN listdir_dirs(last.path)
                       ELSE SelectSeq(listdir_dirs(last.path), LAMBDA n : n # ".git")
          IN  /\ last.pruned = {}
              /\ last.kept = {dir_path(last.path, n) : n \in Range(names)}
              /\ Len(walk_stack) >= Len(names)
              /\ SubSeq(walk_stack, 1, Len(names))
                    = [i \in 1..Len(names) |-> join(last.path, names[i])]

\* a subdirectory that an exclude rule matches was kept and later walked
C9_Witness ==
    /\ mode = "static"
    /\ ExcludedByRule("build/")
    /\ "build" \in hist.visited
    /\ "build/other.txt" \in hist.evaluated

\* C10: in explicit mode of src/dump.py a force-included file is always
\* reached. After the walk, every directory at or beneath a scanned root was
\* visited, and every file there whose last matching rule is a ! rule was
\* evaluated and, its extension permitting, included (and written unless
\* --dry-run), whatever the outcomes of its ancestor directories.
C10_ForceIncludedReached ==
    (pc = "done" /\ rev = "dump" /\ mode = "static") =>
        \A r \in Range(args.input_dirs) : isdir(r) =>
           \A d \in AllDirs : Under(d, r) =>
              /\ d \in hist.visited
              /\ \A f \in Range(listdir_files(d)) :
                    LET f_path == join(d, f)
                    IN  LastMatchOutcome(f_path, compiled_stage_1_rules) = FORCE_INCLUDE =>
                           /\ f_path \in hist.evaluated
                           /\ IF extension_matched(f, allowed_extensions)
                              THEN /\ f_path \in hist.included
                                   /\ ~args.dry_run => f_path \in Range(headers(outfile))
                              ELSE f_path \in hist.skipped /\ f_path \notin hist.included

\* the example of the claim: with the rules *, +*.py, !*.md the .md file two
\* levels down was written although * excludes both of its ancestors
C10_Witness ==
    /\ pc = "done" /\ rev = "dump" /\ mode = "static" /\ ~args.dry_run
    /\ args.rule = <<"*", "+*.py", "!*.md">>
    /\ LastMatchOutcome("sub/", compiled_stage_1_rules) = EXPLICIT_EXCLUDE
    /\ LastMatchOutcome("sub/deep/", compiled_stage_1_rules) = EXPLICIT_EXCLUDE
    /\ "sub/deep/n.md" \in hist.included
    /\ "sub/deep/n.md" \in Range(headers(outfile))

\* the rule lines of directory d's own .dumpignore, in file order
OwnRules(d) ==
    IF ~args.no_dumpignore /\ d \in IgnoreDirs /\ fs.dumpignore[d].exists
    THEN load_rules_from_file(fs.dumpignore[d].lines)
    ELSE <<>>

\* the rule lines of the .dumpignore files of the working directory and of
\* every directory down to d, outermost first
RECURSIVE AncestorLines(_)
AncestorLines(d) ==
    IF d = root_dir THEN OwnRules(d) ELSE AncestorLines(dirname(d)) \o OwnRules(d)

\* the hierarchical walker of src/dump.py is about to process the files of
\* the directory root
HierarchicalFilesStep == pc = "files" /\ rev = "dump" /\ mode = "hierarchical"

\* the directory os.walk is in is where this walk started
AtInputRoot == root = root_dir \/ root = args.input_dirs[input_idx]

\* C11 as stated: for every directory visited by the hierarchical walker of
\* src/dump.py, for any list of input roots, the rule list applied to its
\* entries is the list of its parent followed by its own .dumpignore rules, so
\* that the rules of every ancestor .dumpignore are in force.
C11_AllAncestorsInForce ==
    HierarchicalFilesStep =>
        RuleLinesOf(rules_in_force) = SelectSeq(AncestorLines(root), ValidLine)

\* C11 as amended: for every directory D the hierarchical walker of
\* src/dump.py visits below the input root of the walk, the rule list applied
\* to D's entries is the list of D's parent followed by the rules of D's own
\* .dumpignore in file order, and a local rule that matches a path decides
\* it against every inherited rule. The list of an input root (and of the
\* working directory) holds the rules of its own .dumpignore only: the
\* .dumpignore files above an input root are not in force.
C11_Inheritance ==
    /\ HierarchicalFilesStep =>
          /\ rules_in_force = rules_cache[root]
          /\ rules_in_force =
                (IF AtInputRoot THEN <<>> ELSE rules_cache[dirname(root)])
                    \o compile_stage_1_rules(OwnRules(root))
    /\ (rev = "dump" /\ mode = "hierarchical" /\ FileEvaluated
          /\ pc \in {"walk", "files"} /\ ~AtInputRoot) =>
          LET R == rules_in_force
              inherited == Len(rules_cache[dirname(root)])
              local == {i \in MatchIdx(last.path, R) : i > inherited}
          IN  local # {} => last.outcome = R[Max(local)].outcome

\* the inheritance example: *.md excluded above, +*.md added in sub; n.md
\* below sub is ADDITIVE_INCLUDE by the local rule
C11_Witness ==
    /\ rev = "dump" /\ mode = "hierarchical" /\ FileEvaluated
    /\ last.path = "sub/deep/n.md"
    /\ RuleLinesOf(rules_in_force) = <<"*.md", "*.py", "+*.md">>
    /\ RuleLinesOf(rules_cache["."]) = <<"*.md", "*.py">>
    /\ last.outcome = ADDITIVE_INCLUDE

\* the rule lines in force for directory d in a walk that starts at the
\* input root top: the .dumpignore lines from top down to d
RECURSIVE LinesFrom(_, _)
LinesFrom(d, top) ==
    IF d = top \/ d = root_dir THEN OwnRules(d)
    ELSE LinesFrom(dirname(d), top) \o OwnRules(d)

\* compile_stage_1_rules of the revision that runs
CompileFor(lines) ==
    IF rev = "dump" THEN compile_stage_1_rules(lines)
    ELSE compile_stage_1_rules_CodeDump(lines)

\* the input roots that are directories
ValidRoots == {r \in Range(args.input_dirs) : isdir(r)}

NestedChecked ==
    /\ rev = "CodeDump" /\ FileEvaluated
    /\ last.outcome \in {ADDITIVE_INCLUDE, DEFAULT_INCLUDE}
    /\ DOMAIN gitignore_specs_map # {}

\* the spec of directory d is in the map and matches path P relative to d
SpecAtMatches(d, P) ==
    /\ d \in DOMAIN gitignore_specs_map
    /\ PathSpec_match_file(gitignore_specs_map[d], relpath(P, d))

\* C13: Stage 2 upward walk. check_nested_gitignore returns true iff at least
\* one directory on the chain from the file's directory up to the file system
\* root has a spec in the map that matches the file's path relative to that
\* directory; a nearer spec never cancels a match of a farther one.
C13_NestedGitignore ==
    NestedChecked =>
        (last.ignored <=>
            \E d \in Range(chain_up(dirname(last.path))) : SpecAtMatches(d, last.path))

\* sub/.gitignore re-includes deep/n.md with a negated pattern, the root
\* .gitignore matches it with *.md: the file is ignored
C13_Witness ==
    /\ NestedChecked /\ last.path = "sub/deep/n.md"
    /\ "sub" \in DOMAIN gitignore_specs_map
    /\ ~SpecAtMatches("sub", last.path)
    /\ SpecAtMatches(".", last.path)
    /\ last.ignored /\ last.verdict = "skip"

\* the lines of the .gitignore at the detected repository root
RepoRootGitignore ==
    IF find_git_root(root_dir) = "." THEN fs.gitignore["."]
    ELSE IF find_git_root(root_dir) = ".." THEN fs.up.gitignore
    ELSE NoFile

\* C14: in static (explicit) mode the root .gitignore found at the detected
\* repository root is matched against each path relative to that repository
\* root, also when the working directory lies strictly below it: a file that
\* reaches Stage 2 is ignored iff the spec matches its path relative to the
\* repository root.
C14_RelativeToRepoRoot ==
    (mode = "static" /\ FileEvaluated
       /\ last.outcome \in {ADDITIVE_INCLUDE, DEFAULT_INCLUDE}
       /\ RepoRootGitignore.exists
       /\ load_rules_from_file(RepoRootGitignore.lines) # <<>>) =>
        (last.ignored <=>
            PathSpec_match_file(
                PathSpec_from_lines(load_rules_from_file(RepoRootGitignore.lines)),
                relpath(last.path, find_git_root(root_dir))))

\* C15: no duplicate inclusion. For any list of input roots each relative
\* path is written to the output at most once during a run: the paths written
\* are the processed set, and a path already in it is skipped before any rule
\* is evaluated, with nothing written and nothing counted but the scan.
C15_NoDuplicateInclusion ==
    /\ [](/\ \A i, j \in 1..Len(outfile) : i # j => outfile[i].header # outfile[j].header
          /\ Range(headers(outfile)) = processed_files)
    /\ [][ (pc = "files" /\ join(root, Head(files)) \in processed_files) =>
             /\ outfile' = outfile
             /\ processed_files' = processed_files
             /\ stats' = [stats EXCEPT !.scanned_files = @ + 1]
             /\ last'.verdict = "already" /\ last'.outcome = ""
             /\ hist'.evaluated = hist.evaluated
             /\ hist'.included = hist.included ]_vars

\* overlapping roots: a file written in the walk of sub was met again in the
\* walk of the working directory and skipped as already processed
C15_Witness ==
    /\ args.input_dirs = <<"nope", "sub", ".">> /\ input_idx = 3
    /\ last.kind = "file" /\ last.verdict = "already"
    /\ last.path = "sub/b.py"
    /\ \E i \in 1..Len(outfile) : outfile[i].header = "sub/b.py"

\* C16: the version-control metadata directory is never descended into. In
\* both walkers of both revisions .git is never visited and no file under it
\* is ever scanned, evaluated or included, whatever the Stage-1 rules.
C16_GitDirNeverEntered ==
    /\ ".git" \notin hist.visited
    /\ \A f \in hist.scanned \cup hist.evaluated \cup hist.included \cup Range(headers(outfile)) :
          ~Beneath(f, ".git/")

\* C17: extension allow-list under force-include. With an allow-list
\* configured, a file whose Stage-1 outcome is FORCE_INCLUDE but whose
\* extension is not in the list is counted as skipped, not as included, and
\* is not written, by process_file of both revisions.
C17_ForceIncludeKeepsExtensionFilter ==
    (FileEvaluated /\ ~allowed_extensions.is_none
       /\ last.outcome = FORCE_INCLUDE /\ ~last.ext_matched) =>
        /\ last.verdict = "skip"
        /\ last.path \notin Range(headers(outfile))
        /\ last.path \notin hist.included

\* the run of the end-to-end scenario: the hierarchical walker of src/dump.py
\* over the root that holds a.py, a.log, sub/b.py and sub/.dumpignore (*.py),
\* no rules on the command line, no .gitignore, no extension allow-list
ScenarioRun ==
    /\ rev = "dump" /\ mode = "hierarchical" /\ args.input_dirs = <<".">>
    /\ args.rule = <<>> /\ allowed_extensions.is_none
    /\ fs.tree = ScenarioTree /\ fs.dumpignore = ScenarioDumpignore
    /\ ~fs.repo /\ ~fs.up.repo

UnreadableIncluded ==
    /\ rev = "dump" /\ ~args.dry_run
    /\ FileEvaluated /\ last.verdict = "include"
    /\ last.path \in fs.unreadable

\* the files of the directories at or below a valid input directory
FilesUnderRoots ==
    UNION { {join(d, f) : f \in Range(listdir_files(d))} :
              d \in {x \in AllDirs : \E i \in 1..Len(args.input_dirs) :
                                        /\ isdir(args.input_dirs[i])
                                        /\ Under(x, args.input_dirs[i])} }

\* C20: an unreadable source file does not abort the walk. The step of
\* src/dump.py that includes a file whose read raises appends the header
\* block of the file with the error marker in place of the content, adds one
\* to included_files, remembers the path and goes on to the next file of the
\* directory; and when the walk is over, every file under a valid input
\* directory whose directory was not pruned has been handed to process_file.
C20_UnreadableFileDoesNotAbort ==
    /\ [][(pc = "files" /\ rev = "dump" /\ UnreadableIncluded') =>
             /\ outfile' = Append(outfile, [header |-> last'.path, body |-> ReadError])
             /\ stats'.included_files = stats.included_files + 1
             /\ stats'.skipped_files = stats.skipped_files
             /\ last'.path \in processed_files'
             /\ files' = Tail(files)
             /\ pc' \in {"files", "walk"}]_vars
    /\ []((rev = "dump" /\ pc = "done" /\ hist.pruned = {}) =>
             FilesUnderRoots \subseteq hist.scanned)
    /\ [](rev = "dump" =>
             \A i \in 1..Len(outfile) :
                outfile[i].body = (IF outfile[i].header \in fs.unreadable
                                   THEN ReadError ELSE Content))

\* a.log could not be read, got its header and the error marker, and the
\* walk went on to include and write a.py
C20_Witness ==
    /\ rev = "dump" /\ ~args.dry_run /\ pc = "done"
    /\ "a.log" \in fs.unreadable
    /\ \E i \in 1..Len(outfile) :
          /\ outfile[i] = [header |-> "a.log", body |-> ReadError]
          /\ \E j \in (i + 1)..Len(outfile) :
                outfile[j] = [header |-> "a.py", body |-> Content]
    /\ stats.included_files >= 2

\* directory d is path or an ancestor of it
AtOrAbove(d, path) == d = path \/ d = "/" \/ startswith(path, d \o "/")

\* the nearest directory at or above path that holds a .git directory, ""
\* when there is none
NearestGitRoot(path) ==
    LET above == {d \in fs.git : AtOrAbove(d, path)}
    IN  IF above = {} THEN ""
        ELSE CHOOSE d \in above : \A e \in above : Len(e) <= Len(d)

\* C19: the cache never changes a result. Every call of find_git_root, after
\* any sequence of earlier calls, returns the nearest directory at or above
\* its start path that holds a .git directory, or None when there is none.
C19_CacheNeverChangesResult ==
    last.kind = "find_git_root" => last.root = NearestGitRoot(last.path)

\* the files of the directories at or below r that lie beneath no directory
\* pruned during the current os.walk
FilesToWalk(r) ==
    { p \in UNION { {join(d, f) : f \in Range(listdir_files(d))} :
                      d \in {x \in AllDirs : Under(x, r)} } :
        \A q \in hist.walk_pruned : ~Beneath(p, q) }

\* the loop over input_dirs of src/dump.py stands at an entry that is no
\* directory
AtInvalidRoot ==
    /\ rev = "dump" /\ pc = "input"
    /\ input_idx <= Len(args.input_dirs)
    /\ ~isdir(args.input_dirs[input_idx])

\* C21: an invalid scan root is skipped without stopping the run. In both
\* walkers of src/dump.py the step at an input that is no directory moves to
\* the next input and scans, counts and writes nothing; the os.walk of every
\* input that is a directory, before or after it, ends only when every file
\* under that input outside the directories it pruned has been handed to
\* process_file; and the run ends only after every input has had its turn,
\* with every valid input visited.
C21_InvalidRootSkipped ==
    /\ [][AtInvalidRoot =>
             /\ input_idx' = input_idx + 1 /\ pc' = "input"
             /\ UNCHANGED <<stats, outfile, processed_files, hist>>]_vars
    /\ [][(rev = "dump" /\ pc = "walk" /\ pc' = "input") =>
             FilesToWalk(args.input_dirs[input_idx]) \subseteq hist.walk_scanned]_vars
    /\ []((rev = "dump" /\ pc = "done") =>
             /\ input_idx = Len(args.input_dirs) + 1
             /\ \A i \in 1..Len(args.input_dirs) :
                   isdir(args.input_dirs[i]) => args.input_dirs[i] \in hist.visited)

\* sub was walked, nope was skipped, and the working directory was walked
\* after it
C21_Witness ==
    /\ rev = "dump" /\ pc = "done"
    /\ args.input_dirs = <<"sub", "nope", ".">>
    /\ "." \in hist.visited /\ "sub" \in hist.visited
    /\ "a.py" \in hist.scanned /\ "sub/b.py" \in hist.scanned

\* C22: catastrophic failure. After an exception has escaped the walk in
\* collect_source_files of src/dump.py the output stream is closed, the
\* exit status is 1, and no file of size 0 is left at the output path; a
\* file that already holds blocks is left in place.
C22_CatastrophicFailure ==
    (rev = "dump" /\ pc = "aborted") =>
        /\ ~output_file.stream_open
        /\ exit_status = 1
        /\ ~(output_file.exists /\ outfile = <<>>)
        /\ (~args.dry_run /\ outfile # <<>>) => output_file.exists

\* the exception came before anything was written and the empty file the
\* run had created is gone
C22_Witness ==
    /\ rev = "dump" /\ pc = "aborted" /\ ~args.dry_run
    /\ hist.visited # {} /\ outfile = <<>>
    /\ output_file.path = AbsOutput /\ ~output_file.exists

\* a header block starts at line i of text t: separator line, '// File: '
\* line, separator line
HeaderAt(t, i) ==
    /\ i >= 1 /\ i + 2 <= Len(t)
    /\ t[i] = SEP /\ startswith(t[i + 1], "// File: ") /\ t[i + 2] = SEP

\* the first line at or after i where a header block starts, 0 when none
RECURSIVE NextHeader(_, _)
NextHeader(t, i) ==
    IF i > Len(t) THEN 0
    ELSE IF HeaderAt(t, i) THEN i
    ELSE NextHeader(t, i + 1)

\* text t split at its header blocks, from line i on: the label of each block
\* and its body, the text between the empty line that ends the header and
\* the '\n' pair before the next header (or the '\n' that ends the text)
RECURSIVE SplitAtHeaders(_, _)
SplitAtHeaders(t, i) ==
    LET h == NextHeader(t, i)
    IN  IF h = 0 THEN <<>>
        ELSE LET n    == NextHeader(t, h + 3)
                 stop == IF n = 0 THEN Len(t) - 1 ELSE n - 2
                 body == IF stop >= h + 4 THEN SubSeq(t, h + 4, stop) ELSE <<>>
             IN  <<[label |-> SubSeq(t[h + 1], 10, Len(t[h + 1])), body |-> body]>>
                    \o SplitAtHeaders(t, h + 3)

\* the files written so far, with their contents, in the order of writing
WrittenFiles == [i \in 1..Len(outfile) |-> [label |-> outfile[i].header,
                                           body  |-> read(outfile[i].header)]]

\* a header block occurs in the content of some file written so far
HeaderInContent ==
    \E i \in 1..Len(outfile) :
       LET c == read(outfile[i].header)
       IN  \E k \in 1..Len(c) : HeaderAt(c, k)

FilterRulesInOrder ==
    LET rules_of(i) == IF args.filter_file[i].exists
                       THEN load_rules_from_file(args.filter_file[i].lines) ELSE <<>>
        upto[i \in 0..Len(args.filter_file)] ==
            IF i = 0 THEN <<>> ELSE upto[i - 1] \o rules_of(i)
    IN  upto[Len(args.filter_file)]

\* the explicit-mode run of src/dump.py has built its rule sets
StaticRulesBuilt == rev = "dump" /\ mode = "static" /\ pc # "start" /\ pc # "aborted"

\* C24: --rule takes precedence over --filter-file in src/dump.py. With at
\* least one --rule the compiled Stage-1 list is that of the --rule values
\* alone, in command-line order, and no rule of a filter file is in it or is
\* ever the winning rule of a decision; without --rule it is that of the
\* filter files' rules, file after file in the order named.
C24_RuleOverFilterFile ==
    /\ (StaticRulesBuilt /\ args.rule # <<>>) =>
          /\ compiled_stage_1_rules = compile_stage_1_rules(args.rule)
          /\ \A i \in 1..Len(compiled_stage_1_rules) :
                \E k \in 1..Len(args.rule) : args.rule[k] = compiled_stage_1_rules[i].rule_line
          /\ (FileEvaluated /\ last.winning_rule # NoRule) =>
                \E k \in 1..Len(args.rule) : <<args.rule[k]>> = last.winning_rule
    /\ (StaticRulesBuilt /\ args.rule = <<>>) =>
          compiled_stage_1_rules = compile_stage_1_rules(FilterRulesInOrder)

\* --rule '*.log' was given with two filter files; a.py, which the second
\* filter file excludes, was included
C24_Witness ==
    /\ StaticRulesBuilt /\ args.rule = <<"*.log">> /\ Len(args.filter_file) = 2
    /\ args.filter_file[2].exists
    /\ "a.py" \in hist.included
    /\ "a.log" \in hist.skipped

\* C25: statistics invariant. At the end of any walk of src/dump.py
\* scanned_files = included_files + skipped_files, and no counter ever
\* decreases.
C25_StatisticsBalance ==
    /\ []((rev = "dump" /\ pc = "done") =>
             stats.scanned_files = stats.included_files + stats.skipped_files)
    /\ [][rev = "dump" =>
             /\ stats'.scanned_files >= stats.scanned_files
             /\ stats'.included_files >= stats.included_files
             /\ stats'.skipped_files >= stats.skipped_files]_vars

\* a walk of src/dump.py is over
WalkOver == rev = "dump" /\ pc = "done"

\* what a real run ends with: every included file counted once
RealRunCounts ==
    stats.included_files = Cardinality(hist.included)

\* C26: dry-run equivalence. A real run of src/dump.py ends with
\* included_files equal to the number of files included, also for
\* overlapping input roots; a --dry-run walk over the same tree, rules and
\* roots decides on the same files and ends with the same counts, hence with
\* included_files equal to the number of files it included.
C26_DryRunSameCounts ==
    WalkOver => RealRunCounts

\* directory d is reached by the hierarchical walk of src/dump.py that
\* starts at input root r: every directory on the way down from r was kept,
\* its path with a trailing slash not being excluded by the rules in force
\* in its parent
RECURSIVE ReachedFrom(_, _)
ReachedFrom(d, r) ==
    IF d = r THEN TRUE
    ELSE IF d = root_dir THEN FALSE
    ELSE /\ ReachedFrom(dirname(d), r)
         /\ LastMatchOutcome(d \o "/", compile_stage_1_rules(LinesFrom(dirname(d), r)))
               # EXPLICIT_EXCLUDE

\* the file f of directory d is included when the walk that starts at input
\* root r evaluates it
IncludedWhenWalkedFrom(d, f, r) ==
    LET o == LastMatchOutcome(join(d, f), compile_stage_1_rules(LinesFrom(d, r)))
    IN  /\ extension_matched(f, allowed_extensions)
        /\ \/ o = FORCE_INCLUDE
           \/ o \in {ADDITIVE_INCLUDE, DEFAULT_INCLUDE} /\ ~ProjectIgnored(join(d, f))

\* the files the walk of input root r alone includes
IncludedFromRoot(r) ==
    UNION { {join(d, f) : f \in {g \in Range(listdir_files(d)) : IncludedWhenWalkedFrom(d, g, r)}} :
              d \in {x \in AllDirs : ReachedFrom(x, r)} }

\* a real hierarchical run of src/dump.py
RealHierarchicalRun == rev = "dump" /\ mode = "hierarchical" /\ ~args.dry_run

\* C27: independence from root order. When a real hierarchical run of
\* src/dump.py is over, the set of paths written is the union, over the
\* input roots that are directories, of the files the walk of that root
\* alone includes, whatever the order of the roots and whether or not they
\* are nested; and during the run every file is evaluated under the rule
\* list built from the .dumpignore files between the current input root and
\* its directory, whatever earlier walks left in rules_cache.
C27_RootOrderIndependence ==
    /\ (RealHierarchicalRun /\ pc = "done") =>
          Range(headers(outfile)) = UNION { IncludedFromRoot(r) : r \in ValidRoots }
    /\ (RealHierarchicalRun /\ pc = "files") =>
          current_compiled_rules =
             compile_stage_1_rules(LinesFrom(root, args.input_dirs[input_idx]))

\* the working directory was walked before sub: its walk excluded sub/b.py,
\* the walk of sub, with sub/.dumpignore alone, included it
C27_Witness ==
    /\ RealHierarchicalRun /\ pc = "done"
    /\ args.input_dirs = <<".", "sub", ".">>
    /\ "sub/b.py" \in Range(headers(outfile))
    /\ "sub/b.py" \notin IncludedFromRoot(".")
    /\ "a.py" \notin Range(headers(outfile))

\* sub was walked before the working directory, with the same result
C27_OtherOrder ==
    /\ RealHierarchicalRun /\ pc = "done"
    /\ args.input_dirs = <<"nope", "sub", ".">>
    /\ "sub/b.py" \in Range(headers(outfile))
    /\ "sub/b.py" \notin IncludedFromRoot(".")

\* C28: the file being written is never its own input. In a run of
\* src/dump.py the output file that collect_source_files has opened is never
\* included by the walk and never gets a block in the output.
C28_OutputNeverItsOwnInput ==
    (rev = "dump" /\ pc # "start") =>
        /\ output_file.path \notin hist.included
        /\ output_file.path \notin Range(headers(outfile))

\* the positional path is not blank
NonBlank(raw_path) == strip(raw_path) # ""

====
